---- MODULE Spec2Model ----
(***************************************************************************)
(* A model of the Facebook page post crawler's extraction engine           *)
(* (src/src/parser.py, class FacebookParser).                              *)
(*                                                                         *)
(* Program strings are sequences of one-character strings, so that the     *)
(* substring tests, regular-expression searches, strips and splits of the  *)
(* source are computed character by character.  Markup is a document-order *)
(* sequence of tokens carrying their nesting depth; parse_html builds the  *)
(* tree (parent links) from it.  A tree is named by the markup it was      *)
(* parsed from, and an element is a node of such a tree.                   *)
(***************************************************************************)
EXTENDS Integers, Sequences, FiniteSets, TLC

VARIABLES
    soup,                    \* self.soup: the document it was parsed from
    pc,                      \* where each caller stands in find_posts
    args,                    \* html_content and page_name of each call
    sel,                     \* the selector each call applies next
    all_potential_elements,  \* of each call
    unique_posts,            \* of each call
    pos,                     \* the index in unique_posts each loop is at
    posts,                   \* of each call
    origin,                  \* the element each record of posts came from
    returned,                \* the calls that returned, with their result
    crawled,                 \* what crawl_page returned for each call made
    calls,                   \* the number of calls made
    cand,                    \* the candidate parse_post runs on
    ppc,                     \* where parse_post stands
    draft,                   \* the fields extracted so far
    ran,                     \* the sub-extractors parse_post has called
    caught,                  \* the sub-extractors whose except clause ran
    outcome,                 \* what became of the candidate
    fb_posts,                \* the rows of the table fb_posts
    post_id_unique,          \* whether the table has a unique key on post_id
    dbpc,                    \* where each task stands in save_post
    saving,                  \* the post_data each task is saving
    saved,                   \* what the save_post calls returned
    nsaves,                  \* the number of save_post calls made
    argv,                    \* the parsed command line
    page_url,                \* page_url of main
    log_name,                \* page_name of run when it logs the crawl
    cpc,                     \* where main stands
    rpc,                     \* where run stands
    save_to_db,              \* the argument of run
    browser,                 \* self.browser
    connection,              \* self.db.connection
    log_id,                  \* log_id of run
    crawl_logs,              \* the rows of the table crawl_logs
    results,                 \* results of run
    found,                   \* posts of run: what crawl_page returned
    stats,                   \* stats of save_posts_to_db
    outcomes,                \* what save_post returned for each post
    exc,                     \* the exception that is propagating in run
    raised_at,               \* the steps of run that raised
    swallowed,               \* whether the except clause of crawl_page ran
    fb_pages,                \* the rows of the table fb_pages
    last_op,                 \* the last management operation on each page
    mops,                    \* the number of management operations made
    tpc,                     \* where crawl_all_active_pages_task stands
    active_pages,            \* active_pages of the task
    dispatched               \* the crawl_page tasks sent to the queue

findVars == <<soup, pc, args, sel, all_potential_elements, unique_posts, pos,
              posts, origin, returned, crawled, calls>>

postVars == <<cand, ppc, draft, ran, caught, outcome>>

dbVars == <<fb_posts, post_id_unique, dbpc, saving, saved, nsaves>>

cliVars == <<argv, page_url, log_name, cpc>>

runVars == <<rpc, save_to_db, browser, connection, log_id, crawl_logs, results,
             found, stats, outcomes, exc, raised_at, swallowed>>

pageVars == <<fb_pages, last_op, mops, tpc, active_pages, dispatched>>

vars == <<findVars, postVars, dbVars, cliVars, runVars, pageVars>>

(***************************************************************************)
(* Python values                                                           *)
(***************************************************************************)

\* Python's None where a string is expected: no program string equals it.
None == <<"#None">>

\* Optional[datetime]: the empty tuple is None, a one-tuple holds the value.
NoTime == <<>>

\* Python truthiness of an Optional[str].
Truthy(s) == s # None /\ s # <<>>

Min(S) == CHOOSE x \in S : \A y \in S : x <= y

Max(S) == CHOOSE x \in S : \A y \in S : x >= y

(***************************************************************************)
(* String operations                                                       *)
(***************************************************************************)

Whitespace == {" ", "\n", "\t"}

\* s[i:i+len(p)] == p
MatchAt(s, p, i) ==
    /\ i >= 1
    /\ i + Len(p) - 1 <= Len(s)
    /\ SubSeq(s, i, i + Len(p) - 1) = p

\* p in s
Contains(s, p) == \E i \in 1..(Len(s) + 1) : MatchAt(s, p, i)

\* s.startswith(p)
StartsWith(s, p) == MatchAt(s, p, 1)

\* The index after the longest run of characters outside stop starting at i.
RunEnd(s, i, stop) ==
    LET ends == {j \in i..Len(s) : s[j] \in stop}
    IN  IF ends = {} THEN Len(s) + 1 ELSE Min(ends)

\* The index after the longest run of characters of keep starting at i.
RunEndIn(s, i, keep) ==
    LET ends == {j \in i..Len(s) : s[j] \notin keep}
    IN  IF ends = {} THEN Len(s) + 1 ELSE Min(ends)

\* The index where the white space that ends before index k starts.
SpaceStart(s, k) ==
    LET solid == {j \in 1..(k - 1) : s[j] \notin Whitespace}
    IN  IF solid = {} THEN 1 ELSE Max(solid) + 1

\* The group that starts n characters after the least of the match starts
\* and runs to the first character of stop.
GroupAfter(s, starts, n, stop) ==
    IF starts = {} THEN None
    ELSE SubSeq(s, Min(starts) + n, RunEnd(s, Min(starts) + n, stop) - 1)

\* re.search(lit + "([^stop]+)", s): group(1), or None.
SearchAfter(s, lit, stop) ==
    GroupAfter(s, {i \in 1..Len(s) :
                     /\ MatchAt(s, lit, i)
                     /\ i + Len(lit) <= Len(s)
                     /\ s[i + Len(lit)] \notin stop},
               Len(lit), stop)

\* s.split(sep)[0] for a one-character separator
SplitFirst(s, sep) == SubSeq(s, 1, RunEnd(s, 1, {sep}) - 1)

\* s.strip()
Strip(s) ==
    LET keep == {i \in 1..Len(s) : s[i] \notin Whitespace}
    IN  IF keep = {} THEN <<>> ELSE SubSeq(s, Min(keep), Max(keep))

\* s[:n]
Take(s, n) == SubSeq(s, 1, IF Len(s) < n THEN Len(s) ELSE n)

RECURSIVE Join(_, _)
\* sep.join(parts)
Join(parts, sep) ==
    IF parts = <<>> THEN <<>>
    ELSE IF Len(parts) = 1 THEN parts[1]
    ELSE parts[1] \o sep \o Join(Tail(parts), sep)

RECURSIVE Flatten(_)
\* The concatenation of a sequence of sequences.
Flatten(ss) == IF ss = <<>> THEN <<>> ELSE ss[1] \o Flatten(Tail(ss))

RECURSIVE SelectIdx(_, _)
\* The members of the index set I in increasing order.
SelectIdx(I, lo) ==
    IF I = {} THEN <<>>
    ELSE LET m == Min(I) IN <<m>> \o SelectIdx(I \ {m}, m)

\* The increasing sequence of the members of a set of integers.
Sorted(I) == SelectIdx(I, 0)

(***************************************************************************)
(* Markup and the parsed tree                                              *)
(***************************************************************************)

\* A start tag at a nesting depth, with its attributes.
Tok(tag, depth, attrs) ==
    [tag |-> tag, depth |-> depth, attrs |-> attrs, text |-> <<>>]

\* A text run at a nesting depth.
Txt(depth, s) ==
    [tag |-> "#text", depth |-> depth, attrs |-> <<>>, text |-> s]

\* BeautifulSoup(html_content, "lxml"): every token becomes a node whose
\* parent is the nearest earlier token one level up (0: the document).
BeautifulSoup(html) ==
    [i \in 1..Len(html) |->
       [tag    |-> html[i].tag,
        attrs  |-> html[i].attrs,
        text   |-> html[i].text,
        parent |-> LET up == {j \in 1..(i - 1) :
                                html[j].depth = html[i].depth - 1}
                   IN  IF up = {} THEN 0 ELSE Max(up)]]

\* element.get(name): the attribute's value, or None.
Get(tree, i, name) ==
    IF name \in DOMAIN tree[i].attrs THEN tree[i].attrs[name] ELSE None

RECURSIVE Ancestors(_, _)
\* The indexes of the strict ancestors of node i.
Ancestors(tree, i) ==
    IF tree[i].parent = 0 THEN {}
    ELSE {tree[i].parent} \cup Ancestors(tree, tree[i].parent)

\* element.descendants, in document order (0 stands for the document).
Descendants(tree, i) ==
    IF i = 0 THEN 1..Len(tree)
    ELSE {j \in (i + 1)..Len(tree) : i \in Ancestors(tree, j)}

\* The last index of the subtree rooted at i.
SubtreeEnd(tree, i) == Max({i} \cup Descendants(tree, i))

\* What Tag.__eq__ compares: name, attributes and contents, recursively.
Shape(tree, i) ==
    [k \in 0..(SubtreeEnd(tree, i) - i) |->
       [tag   |-> tree[i + k].tag,
        attrs |-> tree[i + k].attrs,
        text  |-> tree[i + k].text,
        up    |-> IF k = 0 THEN 0 ELSE (i + k) - tree[i + k].parent]]

(***************************************************************************)
(* Thresholds of the source                                                *)
(***************************************************************************)

\* The smallest declared width or height of a content image.
MinDimension == 100

\* The digits an aria-label number needs to count as an identifier.
MinLabelDigits == 10

\* The characters of the content that go into a generated identifier.
IdContentChars == 100

\* A text of the global fallback is longer than this.
MinTextChars == 20

\* A fragment of the structural fallback is longer than this.
MinPartChars == 3

(***************************************************************************)
(* Searching the tree                                                      *)
(***************************************************************************)

\* The value of the class attribute is a list of tokens; absent: no tokens.
ClassList(tree, i) ==
    IF "class" \in DOMAIN tree[i].attrs THEN tree[i].attrs["class"] ELSE <<>>

\* " ".join(class tokens)
ClassStr(tree, i) == Join(ClassList(tree, i), <<" ">>)

\* element.find_all(tags): the descendants of i with one of the tag names.
FindAllTags(tree, i, tags) ==
    Sorted({j \in Descendants(tree, i) : tree[j].tag \in tags})

\* element.find_all(tags, {name: value})
FindAllAttr(tree, i, tags, name, value) ==
    Sorted({j \in Descendants(tree, i) :
              tree[j].tag \in tags /\ Get(tree, j, name) = value})

\* element.find_all(tags, name=True): the attribute is present.
FindAllWith(tree, i, tags, name) ==
    Sorted({j \in Descendants(tree, i) :
              tree[j].tag \in tags /\ name \in DOMAIN tree[j].attrs})

\* element.find_parent(tags) is not None
HasParentTag(tree, i, tags) ==
    \E j \in Ancestors(tree, i) : tree[j].tag \in tags

\* The text nodes below i (or i itself), in document order.
Strings(tree, i) ==
    Sorted({j \in {i} \cup Descendants(tree, i) : tree[j].tag = "#text"})

RECURSIVE StrippedParts(_, _)
\* _all_strings(strip=True): every text stripped, the empty ones dropped.
StrippedParts(tree, idxs) ==
    IF idxs = <<>> THEN <<>>
    ELSE LET s == Strip(tree[Head(idxs)].text)
         IN  (IF s = <<>> THEN <<>> ELSE <<s>>)
               \o StrippedParts(tree, Tail(idxs))

\* element.get_text(separator=sep, strip=True)
GetTextStrip(tree, i, sep) == Join(StrippedParts(tree, Strings(tree, i)), sep)

\* The texts of the nodes idxs, one after the other.
TextsOf(tree, idxs) == Flatten([k \in 1..Len(idxs) |-> tree[idxs[k]].text])

\* element.get_text()
GetText(tree, i) == TextsOf(tree, Strings(tree, i))

(***************************************************************************)
(* Case                                                                    *)
(***************************************************************************)

\* The upper-case letters with their lower-case forms.
LowerOf ==
    [c \in {"A", "B", "C", "D", "E", "F", "G", "H", "I", "J", "K", "L", "M",
            "N", "O", "P", "Q", "R", "S", "T", "U", "V", "W", "X", "Y", "Z"} |->
       CASE c = "A" -> "a" [] c = "B" -> "b" [] c = "C" -> "c" [] c = "D" -> "d"
         [] c = "E" -> "e" [] c = "F" -> "f" [] c = "G" -> "g" [] c = "H" -> "h"
         [] c = "I" -> "i" [] c = "J" -> "j" [] c = "K" -> "k" [] c = "L" -> "l"
         [] c = "M" -> "m" [] c = "N" -> "n" [] c = "O" -> "o" [] c = "P" -> "p"
         [] c = "Q" -> "q" [] c = "R" -> "r" [] c = "S" -> "s" [] c = "T" -> "t"
         [] c = "U" -> "u" [] c = "V" -> "v" [] c = "W" -> "w" [] c = "X" -> "x"
         [] c = "Y" -> "y" [] c = "Z" -> "z"]

LowerChar(c) == IF c \in DOMAIN LowerOf THEN LowerOf[c] ELSE c

\* s.lower()
Lower(s) == [k \in 1..Len(s) |-> LowerChar(s[k])]

Digit == {"0", "1", "2", "3", "4", "5", "6", "7", "8", "9"}

(***************************************************************************)
(* extract_content                                                         *)
(***************************************************************************)

Message == <<"m", "e", "s", "s", "a", "g", "e">>

Auto == <<"a", "u", "t", "o">>

UserContent == <<"u", "s", "e", "r", "C", "o", "n", "t", "e", "n", "t">>

\* The class tokens that mark post body text.
BodyClasses ==
    {<<"x", "1", "1", "i", "5", "r", "n", "m">>,
     <<"x", "1", "m", "h", "8", "g", "0", "r">>,
     <<"x", "t", "0", "b", "8", "z", "v">>,
     <<"x", "a", "t", "2", "4", "c", "r">>}

\* "nhan tin", "theo doi", "chia se" with their diacritics: a character
\* outside ASCII is written as its code point.
Trash ==
    {<<"n", "h", "U+1EAF", "n", " ", "t", "i", "n">>,
     <<"t", "h", "e", "o", " ", "d", "U+00F5", "i">>,
     <<"c", "h", "i", "a", " ", "s", "U+1EBB">>}

\* The keywords of the counter pattern, lower case.
CounterWords ==
    {<<"l", "i", "k", "e">>, <<"l", "i", "k", "e", "s">>,
     <<"t", "h", "U+00ED", "c", "h">>,
     <<"s", "h", "a", "r", "e">>, <<"s", "h", "a", "r", "e", "s">>,
     <<"c", "h", "i", "a", " ", "s", "U+1EBB">>,
     <<"c", "o", "m", "m", "e", "n", "t">>,
     <<"c", "o", "m", "m", "e", "n", "t", "s">>,
     <<"b", "U+00EC", "n", "h", " ", "l", "u", "U+1EAD", "n">>}

\* The truncation markers "Xem them" and "See more", lower case.
MoreWords ==
    {<<"x", "e", "m", " ", "t", "h", "U+00EA", "m">>,
     <<"s", "e", "e", " ", "m", "o", "r", "e">>}

\* The date-or-counter pattern against a lower-case text of n characters.
IsCounter(low, n) ==
    \/ /\ n >= 2
       /\ \A k \in 1..(n - 1) : low[k] \in Digit
       /\ low[n] \in {"h", "m", "d", "y"}
    \/ low = <<"j", "u", "s", "t", " ", "n", "o", "w">>
    \/ low = <<"v", "U+1EEB", "a", " ", "x", "o", "n", "g">>
    \/ \E word \in CounterWords :
         /\ n - Len(word) >= 2
         /\ MatchAt(low, word, n - Len(word) + 1)
         /\ low[n - Len(word)] = " "
         /\ \A j \in 1..(n - Len(word) - 1) : low[j] \in Digit \cup {".", ","}

\* re.match of the date-or-counter pattern against the whole of txt, re.I.
IsCounterText(txt) == IsCounter(Lower(txt), Len(txt))

\* s cut before the white space that ends at index dots, when the ellipsis
\* character stands there.
CutEllipsis(s, dots) ==
    IF dots >= 1 /\ s[dots] = "U+2026"
    THEN SubSeq(s, 1, SpaceStart(s, dots) - 1)
    ELSE s

\* s cut before the white space in front of the word that starts at index
\* start, and before an ellipsis in front of that when one is asked for.
CutBefore(s, start, ellipsis) ==
    IF ellipsis THEN CutEllipsis(s, SpaceStart(s, start) - 1)
    ELSE SubSeq(s, 1, SpaceStart(s, start) - 1)

\* s cut before the one of the words that ends at index last.
CutWord(s, words, last, ellipsis) ==
    IF words = {} THEN s
    ELSE CutBefore(s, last - Len(CHOOSE w \in words : TRUE) + 1, ellipsis)

\* s cut before the "see more" word that ends at index last of low, the
\* lower-case s.
CutMore(s, low, last, ellipsis) ==
    CutWord(s, {w \in MoreWords : MatchAt(low, w, last - Len(w) + 1)}, last,
            ellipsis)

\* re.sub(r"\s*(prefix)\s*(Xem them|See more)\s*$", "", s, flags=re.I), where
\* prefix is empty or the ellipsis character: the match ends at the end of s,
\* so its word ends at the last character that is no white space.
StripMore(s, ellipsis) ==
    CutMore(s, Lower(s), SpaceStart(s, Len(s) + 1) - 1, ellipsis)

RECURSIVE Unique(_)
\* The members of a sequence in first-seen order, repeats dropped.
Unique(xs) ==
    IF xs = <<>> THEN <<>>
    ELSE LET front == Unique(SubSeq(xs, 1, Len(xs) - 1))
             x     == xs[Len(xs)]
         IN  IF \E k \in 1..Len(front) : front[k] = x
             THEN front ELSE Append(front, x)

\* The extractors whose first library call on the element raises: markup
\* on which the tree library fails (a RecursionError on deep nesting, ...).
Raises(tree, i, what) ==
    /\ "raises" \in DOMAIN tree[i].attrs
    /\ what \in tree[i].attrs["raises"]

\* What an extractor returns after its try statement: the value its try
\* block returned, or the value its last line returns when the block raised
\* and the except clause logged.
OrDefault(try, default) == IF try.raised THEN default ELSE try.value

\* Strategy 1: the message-preview container, under its two attribute names.
MessageContainer(tree, i) ==
    LET comet == FindAllAttr(tree, i, {"div"}, "data-ad-comet-preview", Message)
        old   == FindAllAttr(tree, i, {"div"}, "data-ad-preview", Message)
    IN  IF comet # <<>> THEN comet[1]
        ELSE IF old # <<>> THEN old[1]
        ELSE 0

\* The text a dir="auto" fragment gives: empty unless it lies outside
\* buttons and links and carries a body class.
PartText(tree, j) ==
    IF /\ ~HasParentTag(tree, j, {"button", "a"})
       /\ \E c \in BodyClasses : Contains(ClassStr(tree, j), c)
    THEN GetTextStrip(tree, j, <<>>)
    ELSE <<>>

\* The fragments long enough, repeats dropped.
LongParts(tree, elems) ==
    Unique(SelectSeq([k \in 1..Len(elems) |-> PartText(tree, elems[k])],
                     LAMBDA t : Len(t) > MinPartChars))

\* Strategy 2: the dir="auto" fragments carrying a body class.
PotentialTextParts(tree, i) ==
    LongParts(tree, FindAllAttr(tree, i, {"div", "span"}, "dir", Auto))

\* The first of the nodes, or 0.
FirstOf(nodes) == IF nodes = <<>> THEN 0 ELSE nodes[1]

\* class_="userContent" matches one of the class tokens or the whole value.
HasClass(classes, joined, name) ==
    \/ \E k \in 1..Len(classes) : classes[k] = name
    \/ classes # <<>> /\ joined = name

\* Strategy 3: the first div with the class userContent, or 0.
OldContent(tree, i) ==
    FirstOf(Sorted({j \in Descendants(tree, i) :
                      /\ tree[j].tag = "div"
                      /\ HasClass(ClassList(tree, j), ClassStr(tree, j),
                                  UserContent)}))

\* Whether the global fallback keeps the stripped text txt of node j.
KeepsText(tree, j, txt, low) ==
    /\ Len(txt) > MinTextChars
    /\ ~HasParentTag(tree, j, {"button", "a", "script", "style"})
    /\ ~\E trash \in Trash : Contains(low, trash)
    /\ ~IsCounter(low, Len(txt))

\* The texts kept among the stripped texts of the nodes idxs.
KeptTexts(tree, idxs, txts) ==
    SelectSeq([k \in 1..Len(idxs) |->
                 IF KeepsText(tree, idxs[k], txts[k], Lower(txts[k]))
                 THEN txts[k] ELSE <<>>],
              LAMBDA t : t # <<>>)

\* The stripped texts of the text nodes idxs.
StrippedTexts(tree, idxs) == [k \in 1..Len(idxs) |-> Strip(tree[idxs[k]].text)]

\* Strategy 4: the long texts outside interactive elements.
AllText(tree, i) ==
    KeptTexts(tree, Strings(tree, i), StrippedTexts(tree, Strings(tree, i)))

\* The text of the message-preview container box, empty without one.
MessageText(tree, box) ==
    IF box = 0 THEN <<>> ELSE GetTextStrip(tree, box, <<" ">>)

\* text when it is not empty ("if text: return text"), else what follows.
IfText(text, otherwise) == IF text # <<>> THEN text ELSE otherwise

\* The fragments joined when there are any, else what follows.
IfParts(parts, otherwise) ==
    IF parts # <<>> THEN Join(parts, <<" ">>) ELSE otherwise

\* The text of the legacy container old when there is one, else what follows.
IfOld(tree, old, otherwise) ==
    IF old # 0 THEN GetTextStrip(tree, old, <<" ">>) ELSE otherwise

\* The texts of the global fallback joined and cleaned; "" without texts.
JoinedText(all) ==
    IF all # <<>>
    THEN Strip(StripMore(StripMore(Join(Unique(all), <<" ">>), TRUE), FALSE))
    ELSE <<>>

\* The body of the try block of extract_content.
ExtractContentNoFault(tree, i) ==
    IfText(MessageText(tree, MessageContainer(tree, i)),
           IfParts(PotentialTextParts(tree, i),
                   IfOld(tree, OldContent(tree, i),
                         JoinedText(AllText(tree, i)))))

\* The try block of extract_content: whether it raised, and what it returns
\* when it did not.
TryContent(tree, i) ==
    [raised |-> Raises(tree, i, "content"),
     value  |-> ExtractContentNoFault(tree, i)]

\* extract_content(post_element): the except clause returns "".
ExtractContent(tree, i) == OrDefault(TryContent(tree, i), <<>>)

(***************************************************************************)
(* Numbers                                                                 *)
(***************************************************************************)

DigitSeq == <<"0", "1", "2", "3", "4", "5", "6", "7", "8", "9">>

DigitVal(c) == (CHOOSE k \in 1..10 : DigitSeq[k] = c) - 1

RECURSIVE NatVal(_)
\* The number a non-empty digit string writes.
NatVal(ds) ==
    IF Len(ds) = 0 THEN 0
    ELSE 10 * NatVal(SubSeq(ds, 1, Len(ds) - 1)) + DigitVal(ds[Len(ds)])

\* int(t) for a stripped t: an optional sign, then digits.
IntOfStripped(t) ==
    LET signed == t # <<>> /\ t[1] \in {"+", "-"}
        ds     == IF signed THEN Tail(t) ELSE t
        ok     == ds # <<>> /\ \A k \in 1..Len(ds) : ds[k] \in Digit
    IN  [ok  |-> ok,
         val |-> IF ~ok THEN 0
                 ELSE IF signed /\ t[1] = "-" THEN 0 - NatVal(ds)
                 ELSE NatVal(ds)]

\* int(s): white space around it stripped, an optional sign, then digits;
\* ok is FALSE where Python raises ValueError.
IntParse(s) == IntOfStripped(Strip(s))

RECURSIVE Replace(_, _, _)
\* s.replace(old, new), old not empty
Replace(s, old, new) ==
    IF s = <<>> THEN <<>>
    ELSE IF MatchAt(s, old, 1)
         THEN new \o Replace(SubSeq(s, Len(old) + 1, Len(s)), old, new)
    ELSE <<s[1]>> \o Replace(Tail(s), old, new)

(***************************************************************************)
(* extract_timestamp                                                       *)
(***************************************************************************)

\* Two digits that write a number from lo to hi.
TwoDigits(s, k, lo, hi) ==
    /\ k + 1 <= Len(s)
    /\ s[k] \in Digit /\ s[k + 1] \in Digit
    /\ NatVal(SubSeq(s, k, k + 1)) \in lo..hi

\* hh:mm at position k
IsClock(s, k) ==
    TwoDigits(s, k, 0, 23) /\ k + 2 <= Len(s) /\ s[k + 2] = ":"
    /\ TwoDigits(s, k + 3, 0, 59)

\* Whether datetime.fromisoformat accepts s: YYYY-MM-DD, then optionally one
\* separator character and hh:mm:ss, then optionally a +hh:mm or -hh:mm zone.
IsIsoFormat(s) ==
    /\ Len(s) >= 10
    /\ \A k \in {1, 2, 3, 4} : s[k] \in Digit
    /\ s[5] = "-" /\ s[8] = "-"
    /\ TwoDigits(s, 6, 1, 12)
    /\ TwoDigits(s, 9, 1, 31)
    /\ \/ Len(s) = 10
       \/ /\ Len(s) \in {19, 25}
          /\ IsClock(s, 12) /\ s[17] = ":" /\ TwoDigits(s, 18, 0, 59)
          /\ Len(s) = 25 => (s[20] \in {"+", "-"} /\ IsClock(s, 21))

\* datetime.fromtimestamp(int(utime)), raised when int() raises ValueError.
FromUtime(parsed) ==
    [raised |-> ~parsed.ok, value |-> <<[epoch |-> parsed.val]>>]

\* datetime.fromisoformat(iso), raised when it raises ValueError.
FromIso(iso) == [raised |-> ~IsIsoFormat(iso), value |-> <<[iso |-> iso]>>]

\* What the first time-like element that carries data-utime or datetime
\* gives: the datetime, or raised when int() or fromisoformat() raises
\* ValueError.
TimeOf(tree, j) ==
    IF Truthy(Get(tree, j, "data-utime"))
    THEN FromUtime(IntParse(Get(tree, j, "data-utime")))
    ELSE FromIso(Replace(Get(tree, j, "datetime"), <<"Z">>,
                         <<"+", "0", "0", ":", "0", "0">>))

\* A loop over the time-like elements that goes on to the next element when
\* the attribute of one does not parse.
FirstTimeThatParses(tree, elems) ==
    LET hits == {k \in 1..Len(elems) :
                   /\ \/ Truthy(Get(tree, elems[k], "data-utime"))
                      \/ Truthy(Get(tree, elems[k], "datetime"))
                   /\ ~TimeOf(tree, elems[k]).raised}
    IN  IF hits = {} THEN [raised |-> FALSE, value |-> NoTime]
        ELSE TimeOf(tree, elems[Min(hits)])

\* The loop of extract_timestamp over the time-like elements.
FirstTime(tree, elems) ==
    LET hits == {k \in 1..Len(elems) :
                   \/ Truthy(Get(tree, elems[k], "data-utime"))
                   \/ Truthy(Get(tree, elems[k], "datetime"))}
    IN  IF hits = {} THEN [raised |-> FALSE, value |-> NoTime]
        ELSE TimeOf(tree, elems[Min(hits)])

\* The try block of extract_timestamp.
TryTimestamp(tree, i) ==
    IF Raises(tree, i, "timestamp") THEN [raised |-> TRUE, value |-> NoTime]
    ELSE FirstTime(tree, FindAllTags(tree, i, {"abbr", "time"}))

\* extract_timestamp(post_element): the except clause returns None.
ExtractTimestamp(tree, i) == OrDefault(TryTimestamp(tree, i), NoTime)

(***************************************************************************)
(* _is_valid_media and extract_media_urls                                  *)
(***************************************************************************)

JunkPatterns ==
    {<<"/", "c", "p", "0", "/">>,
     <<"e", "m", "o", "j", "i">>,
     <<"s", "a", "f", "e", "_", "i", "m", "a", "g", "e">>,
     <<"s", "6", "4", "x", "6", "4">>,
     <<"s", "8", "0", "x", "8", "0">>,
     <<"s", "1", "6", "0", "x", "1", "6", "0">>,
     <<"p", "5", "0", "x", "5", "0">>,
     <<"p", "1", "6", "0", "x", "1", "6", "0">>}

\* The words that mark a comment or avatar section.
SectionWords ==
    {<<"c", "o", "m", "m", "e", "n", "t">>,
     <<"r", "e", "p", "l", "y">>,
     <<"a", "v", "a", "t", "a", "r">>}

\* The strings that str(tag) writes for one node: its attribute values and
\* its text (the tag and attribute names of the model hold none of the words).
NodeStrings(tree, j) ==
    {IF name = "class" THEN ClassStr(tree, j) ELSE tree[j].attrs[name] :
       name \in DOMAIN tree[j].attrs \ {"raises"}}
      \cup {tree[j].text}

\* Whether the element up, with all it holds, writes one of the section
\* words.
WritesSectionWord(tree, up) ==
    \E m \in {up} \cup Descendants(tree, up) :
      \E str \in NodeStrings(tree, m) :
        \E w \in SectionWords : Contains(str, w)

\* The nearest of the ancestors ups, when there is one, writes a section word.
NearestWrites(tree, ups) == ups # {} /\ WritesSectionWord(tree, Max(ups))

\* any(x in str(element.find_parent(class_=True)) for x in the section words)
InSection(tree, j) ==
    NearestWrites(tree, {a \in Ancestors(tree, j) :
                           "class" \in DOMAIN tree[a].attrs})

\* int(str(value).replace("px", "")) < 100 for a declared dimension.
Dimension(parsed) ==
    IF ~parsed.ok THEN "ValueError"
    ELSE IF parsed.val < MinDimension THEN "tiny"
    ELSE "fine"

\* A declared width or height: "absent", or what its test gives.
Declared(value) ==
    IF ~Truthy(value) THEN "absent"
    ELSE Dimension(IntParse(Replace(value, <<"p", "x">>, <<>>)))

\* The width test, then the height test; a ValueError leaves the try block.
WidthThenHeight(width, height) ==
    IF width = "ValueError" THEN TRUE
    ELSE IF width = "tiny" THEN FALSE
    ELSE height # "tiny"

\* The width and height test of _is_valid_media.
DimensionsOk(tree, j) ==
    WidthThenHeight(Declared(Get(tree, j, "width")),
                    Declared(Get(tree, j, "height")))

\* _is_valid_media(src, element)
IsValidMedia(src, tree, j) ==
    /\ Truthy(src)
    /\ ~\E p \in JunkPatterns : Contains(src, p)
    /\ ~InSection(tree, j)
    /\ DimensionsOk(tree, j)

ImageAttrs ==
    <<"src", "xlink:href", "data-src", "data-full-size-image-url",
      "data-img-src">>

\* re.search(r'url\((["\']?)(.*?)\1\)', style): group(2), or None.
CssUrl(style) ==
    LET n == Len(style)
        \* the end of group 2 for a match starting at i with quote q
        Ends(i, q) ==
            LET b == i + 4 + Len(q)
            IN  {e \in b..(n + 1) :
                   /\ MatchAt(style, q \o <<")">>, e)
                   /\ \A k \in b..(e - 1) : style[k] # "\n"}
        Quote(i) ==
            IF i + 4 <= n /\ style[i + 4] \in {"\"", "'"}
               /\ Ends(i, <<style[i + 4]>>) # {}
            THEN <<style[i + 4]>> ELSE <<>>
        starts == {i \in 1..n :
                     /\ MatchAt(style, <<"u", "r", "l", "(">>, i)
                     /\ Ends(i, Quote(i)) # {}}
    IN  IF starts = {} THEN None
        ELSE LET i == Min(starts)
                 q == Quote(i)
             IN  SubSeq(style, i + 4 + Len(q), Min(Ends(i, q)) - 1)

\* The URLs one image contributes, in attribute order.
ImageUrls(tree, j) ==
    LET srcs == [k \in 1..Len(ImageAttrs) |-> Get(tree, j, ImageAttrs[k])]
    IN  SelectSeq(srcs, LAMBDA src : IsValidMedia(src, tree, j))

\* The URL the style of a div contributes.
StyleUrls(style, url, tree, j) ==
    IF /\ Contains(style, <<"b", "a", "c", "k", "g", "r", "o", "u", "n", "d",
                            "-", "i", "m", "a", "g", "e">>)
       /\ url # None
       /\ IsValidMedia(url, tree, j)
    THEN <<url>> ELSE <<>>

\* The URL a styled div contributes.
BackgroundUrls(tree, j) ==
    StyleUrls(Get(tree, j, "style"), CssUrl(Get(tree, j, "style")), tree, j)

\* The URL an element with data-ploi contributes.
PloiUrls(tree, j) ==
    IF IsValidMedia(Get(tree, j, "data-ploi"), tree, j)
    THEN <<Get(tree, j, "data-ploi")>> ELSE <<>>

\* The URL a video contributes: its src, else its poster.
VideoUrls(tree, j) ==
    IF Truthy(Get(tree, j, "src")) THEN <<Get(tree, j, "src")>>
    ELSE IF Truthy(Get(tree, j, "poster")) THEN <<Get(tree, j, "poster")>>
    ELSE <<>>

\* One visit of a collection loop: the node visited, what it appends,
\* whether visiting it raises.
Visit(tree, node, urls) ==
    [node |-> node, urls |-> urls, raises |-> Raises(tree, node, "media")]

\* The visits of the loop over the images.
ImageVisits(tree, nodes) ==
    [k \in 1..Len(nodes) |-> Visit(tree, nodes[k], ImageUrls(tree, nodes[k]))]

\* The visits of the loop over the styled divs.
BackgroundVisits(tree, nodes) ==
    [k \in 1..Len(nodes) |->
       Visit(tree, nodes[k], BackgroundUrls(tree, nodes[k]))]

\* The visits of the loop over the elements with data-ploi.
PloiVisits(tree, nodes) ==
    [k \in 1..Len(nodes) |-> Visit(tree, nodes[k], PloiUrls(tree, nodes[k]))]

\* The visits of the loop over the videos.
VideoVisits(tree, nodes) ==
    [k \in 1..Len(nodes) |-> Visit(tree, nodes[k], VideoUrls(tree, nodes[k]))]

\* The visits of the four collection loops, in the order the code makes them.
MediaVisits(tree, i) ==
    ImageVisits(tree, FindAllTags(tree, i, {"img", "image"}))
      \o BackgroundVisits(tree, FindAllWith(tree, i, {"div"}, "style"))
      \o PloiVisits(tree, Sorted({j \in Descendants(tree, i) :
                                    "data-ploi" \in DOMAIN tree[j].attrs}))
      \o VideoVisits(tree, FindAllTags(tree, i, {"video"}))

\* What the visits before the first raising one appended, and whether one
\* raised.
UntilFault(visits) ==
    LET bad  == {k \in 1..Len(visits) : visits[k].raises}
        upto == IF bad = {} THEN Len(visits) ELSE Min(bad) - 1
    IN  [raised |-> bad # {},
         value  |-> Flatten([k \in 1..upto |-> visits[k].urls])]

\* The try block of extract_media_urls: whether it raised, and media_urls
\* when it is left.
TryMedia(tree, i) ==
    IF Raises(tree, i, "media") THEN [raised |-> TRUE, value |-> <<>>]
    ELSE UntilFault(MediaVisits(tree, i))

\* media_urls after the try statement: the except clause only logs.
CollectedMedia(tree, i) == TryMedia(tree, i).value

\* A deduplication that keeps the last occurrence of every URL.
KeepLastOccurrence(media_urls) ==
    SelectSeq([k \in 1..Len(media_urls) |->
                 IF \E j \in (k + 1)..Len(media_urls) : media_urls[j] = media_urls[k]
                 THEN None ELSE media_urls[k]],
              LAMBDA x : x # None)

\* [x for x in media_urls if not (x in seen or seen.add(x))]
DedupPreservingOrder(media_urls) ==
    SelectSeq([k \in 1..Len(media_urls) |->
                 IF \E j \in 1..(k - 1) : media_urls[j] = media_urls[k]
                 THEN None ELSE media_urls[k]],
              LAMBDA x : x # None)

\* extract_media_urls(post_element)
ExtractMediaUrls(tree, i) == DedupPreservingOrder(CollectedMedia(tree, i))

(***************************************************************************)
(* extract_engagement                                                      *)
(***************************************************************************)

LikeWords == {<<"l", "i", "k", "e">>, <<"t", "h", "U+00ED", "c", "h">>}

CommentWords ==
    {<<"c", "o", "m", "m", "e", "n", "t">>,
     <<"b", "U+00EC", "n", "h", " ", "l", "u", "U+1EAD", "n">>}

ShareWords ==
    {<<"s", "h", "a", "r", "e">>, <<"c", "h", "i", "a", " ", "s", "U+1EBB">>}

\* The run of digits and commas that starts at the least of the starts.
NumberAt(text, starts) ==
    IF starts = {} THEN None
    ELSE SubSeq(text, Min(starts),
                RunEndIn(text, Min(starts), Digit \cup {","}) - 1)

\* The starts of the runs of digits and commas in low that one of the words
\* follows, white space between them or none.
NumberStarts(low, words) ==
    {r \in 1..Len(low) :
       /\ low[r] \in Digit \cup {","}
       /\ r = 1 \/ low[r - 1] \notin Digit \cup {","}
       /\ \E word \in words :
            MatchAt(low, word,
                    RunEndIn(low, RunEndIn(low, r, Digit \cup {","}),
                             Whitespace))}

\* re.search(r"([\d,]+)\s*(?:words)", text, re.IGNORECASE): group(1) of the
\* leftmost match, or None.  The words are written without their optional
\* plural s.
NumberBefore(text, words) == NumberAt(text, NumberStarts(Lower(text), words))

\* int(ds) for a string of digits, 0 on the ValueError for the empty string.
IntOrZero(ds) == IF ds = <<>> THEN 0 ELSE NatVal(ds)

\* What a match sets its counter to; 0 without a match.
CounterFrom(m) == IF m = None THEN 0 ELSE IntOrZero(Replace(m, <<",">>, <<>>))

\* The counter a match sets: int(group(1).replace(",", "")), 0 on ValueError
\* and when there is no match.
CounterOf(text, words) == CounterFrom(NumberBefore(text, words))

\* Three scans of which a scan runs only when the one before it has set its
\* counter.
CountersUntilMissing(text) ==
    [likes    |-> CounterOf(text, LikeWords),
     comments |-> IF CounterOf(text, LikeWords) = 0 THEN 0
                  ELSE CounterOf(text, CommentWords),
     shares   |-> IF CounterOf(text, LikeWords) = 0
                     \/ CounterOf(text, CommentWords) = 0 THEN 0
                  ELSE CounterOf(text, ShareWords)]

\* The three scans of the text.
Counters(text) ==
    [likes    |-> CounterOf(text, LikeWords),
     comments |-> CounterOf(text, CommentWords),
     shares   |-> CounterOf(text, ShareWords)]

\* The try block of extract_engagement: get_text is its only call into the
\* tree, so when it raises no counter has been set.
TryEngagement(tree, i) ==
    [raised |-> Raises(tree, i, "engagement"),
     value  |-> Counters(GetText(tree, i))]

\* An extract_engagement whose except clause returns None.
ExtractEngagementOrNone(tree, i) == OrDefault(TryEngagement(tree, i), None)

\* extract_engagement(post_element): the except clause leaves the zeros.
ExtractEngagement(tree, i) ==
    OrDefault(TryEngagement(tree, i), [likes |-> 0, comments |-> 0, shares |-> 0])

(***************************************************************************)
(* extract_post_url                                                        *)
(***************************************************************************)

StoryFbidEq == <<"s", "t", "o", "r", "y", "_", "f", "b", "i", "d", "=">>

PermalinkSeg == <<"/", "p", "e", "r", "m", "a", "l", "i", "n", "k", "/">>

PostsSeg == <<"/", "p", "o", "s", "t", "s", "/">>

VideosSeg == <<"/", "v", "i", "d", "e", "o", "s", "/">>

CommentIdEq == <<"c", "o", "m", "m", "e", "n", "t", "_", "i", "d", "=">>

ReplyCommentIdEq ==
    <<"r", "e", "p", "l", "y", "_", "c", "o", "m", "m", "e", "n", "t", "_",
      "i", "d", "=">>

Http == <<"h", "t", "t", "p">>

FacebookHost ==
    <<"h", "t", "t", "p", "s", ":", "/", "/", "w", "w", "w", ".", "f", "a",
      "c", "e", "b", "o", "o", "k", ".", "c", "o", "m">>

\* keep_params, each with its "="
KeepParams ==
    {<<"s", "t", "o", "r", "y", "_", "f", "b", "i", "d", "=">>,
     <<"i", "d", "=">>,
     <<"f", "b", "i", "d", "=">>,
     <<"s", "e", "t", "=">>,
     <<"v", "=">>}

RECURSIVE Split(_, _)
\* s.split(sep) for a one-character separator
Split(s, sep) ==
    LET e == RunEnd(s, 1, {sep})
    IN  IF e > Len(s) THEN <<s>>
        ELSE <<SubSeq(s, 1, e - 1)>> \o Split(SubSeq(s, e + 1, Len(s)), sep)

\* The absolute form of a link target.
FullUrl(href) ==
    IF StartsWith(href, Http) THEN href
    ELSE IF StartsWith(href, <<"/">>) THEN FacebookHost \o href
    ELSE FacebookHost \o <<"/">> \o href

\* base_url with the kept parameters, or alone when none is kept.
WithParams(base_url, filtered) ==
    IF filtered # <<>> THEN base_url \o <<"?">> \o Join(filtered, <<"&">>)
    ELSE base_url

\* A cleaning that keeps every parameter of a query without a comment.
CleanQueryKeepAll(base_url, params) ==
    IF \E k \in 1..Len(params) : Contains(params[k], CommentIdEq) THEN None
    ELSE WithParams(base_url, params)

\* The URL whose query holds params: None when a parameter names a comment,
\* else the base with the post parameters.
CleanQuery(base_url, params) ==
    IF \E k \in 1..Len(params) : Contains(params[k], CommentIdEq) THEN None
    ELSE WithParams(base_url,
                    SelectSeq(params,
                              LAMBDA p : \E k \in KeepParams : StartsWith(p, k)))

\* post_url cleaned: q is the place of its first "?", past its end without one.
CleanUrl(post_url, q) ==
    IF q > Len(post_url) THEN post_url
    ELSE CleanQuery(SubSeq(post_url, 1, q - 1),
                    Split(SubSeq(post_url, q + 1, Len(post_url)), "&"))

\* The absolute URL cleaned.
Cleaned(post_url) == CleanUrl(post_url, RunEnd(post_url, 1, {"?"}))

\* A link scan that returns the absolute URL of a post link as it stands
\* when the link names a comment.
LinkUrlWithComments(raw) ==
    IF ~\E pat \in {PermalinkSeg, PostsSeg, StoryFbidEq, VideosSeg} :
          Contains(raw, pat)
    THEN None
    ELSE IF Contains(raw, CommentIdEq) THEN FullUrl(raw)
    ELSE Cleaned(FullUrl(raw))

\* What one link gives extract_post_url: the URL to return, or None when the
\* loop goes on to the next link.
LinkUrl(raw) ==
    IF Contains(raw, CommentIdEq) \/ Contains(raw, ReplyCommentIdEq)
    THEN None
    ELSE IF ~\E pat \in {PermalinkSeg, PostsSeg, StoryFbidEq, VideosSeg} :
               Contains(raw, pat)
    THEN None
    ELSE Cleaned(FullUrl(raw))

\* The href values of the links.
HrefsOf(tree, links) == [k \in 1..Len(links) |-> tree[links[k]].attrs["href"]]

\* The href values of post_element.find_all("a", href=True).
Hrefs(tree, i) == HrefsOf(tree, FindAllWith(tree, i, {"a"}, "href"))

\* The value at the least of the hits, or otherwise without a hit.
FirstHit(values, hits, otherwise) ==
    IF hits = {} THEN otherwise ELSE values[Min(hits)]

\* The first of the values that is not None: the value the loop over the
\* links returns.  Without one, otherwise.
FirstNotNone(values, otherwise) ==
    FirstHit(values, {k \in 1..Len(values) : values[k] # None}, otherwise)

\* What every link gives extract_post_url.
LinkUrls(hrefs) == [k \in 1..Len(hrefs) |-> LinkUrl(hrefs[k])]

\* The try block of extract_post_url.
TryPostUrl(tree, i) ==
    [raised |-> Raises(tree, i, "url"),
     value  |-> FirstNotNone(LinkUrls(Hrefs(tree, i)), <<>>)]

\* extract_post_url(post_element): the except clause returns "".
ExtractPostUrl(tree, i) == OrDefault(TryPostUrl(tree, i), <<>>)

(***************************************************************************)
(* extract_post_id                                                         *)
(***************************************************************************)

ELEMENT_ID_PREFIXES ==
    {<<"p", "o", "s", "t">>, <<"h", "y", "p", "e", "r", "f", "e", "e", "d">>}

MfStoryKey ==
    <<"\"", "m", "f", "_", "s", "t", "o", "r", "y", "_", "k", "e", "y", "\"",
      ":", "\"">>

\* The match cut at its first "?"; None without a match.
BeforeQuery(m) == IF m = None THEN None ELSE SplitFirst(m, "?")

\* The path id of /seg/ID, cut at its first "?", or None.
PathId(href, seg) == BeforeQuery(SearchAfter(href, seg, {"/"}))

\* first unless it is None, else second.
OrElse(first, second) == IF first # None THEN first ELSE second

\* The identifier in the path of a link, or None.
PathLinkId(href) ==
    IF Contains(href, PermalinkSeg) THEN PathId(href, PermalinkSeg)
    ELSE IF Contains(href, PostsSeg) THEN PathId(href, PostsSeg)
    ELSE IF Contains(href, VideosSeg) THEN PathId(href, VideosSeg)
    ELSE None

\* The identifier in the story_fbid parameter of a link, or None.
StoryLinkId(href) ==
    IF Contains(href, StoryFbidEq) THEN SearchAfter(href, StoryFbidEq, {"&"})
    ELSE None

\* What one link gives extract_post_id: the identifier to return (possibly
\* empty), or None when the loop goes on to the next link.
LinkId(href) == OrElse(StoryLinkId(href), PathLinkId(href))

\* re.search(r'"mf_story_key":"(\d+)"', data_ft): group(1), or None.
StoryKey(data_ft) ==
    LET n      == Len(data_ft)
        b(i)   == i + Len(MfStoryKey)
        e(i)   == RunEndIn(data_ft, b(i), Digit)
        starts == {i \in 1..n :
                     /\ MatchAt(data_ft, MfStoryKey, i)
                     /\ e(i) > b(i)
                     /\ e(i) <= n
                     /\ data_ft[e(i)] = "\""}
    IN  IF starts = {} THEN None
        ELSE SubSeq(data_ft, b(Min(starts)), e(Min(starts)) - 1)

\* re.search(r"(\d{10,})", aria_label): group(1), or None.
LongNumber(aria_label) ==
    LET n      == Len(aria_label)
        e(i)   == RunEndIn(aria_label, i, Digit)
        starts == {i \in 1..n : e(i) - i >= MinLabelDigits}
    IN  IF starts = {} THEN None
        ELSE SubSeq(aria_label, Min(starts), e(Min(starts)) - 1)

RECURSIVE NatStr(_)
\* str(n) for n >= 0
NatStr(n) ==
    IF n < 10 THEN <<DigitSeq[n + 1]>>
    ELSE NatStr(n \div 10) \o <<DigitSeq[(n % 10) + 1]>>

\* f"{timestamp}": "None", or the datetime written out.
TimeStr(timestamp) ==
    IF timestamp = NoTime THEN <<"N", "o", "n", "e">>
    ELSE IF "iso" \in DOMAIN timestamp[1] THEN timestamp[1].iso
    ELSE IF timestamp[1].epoch < 0
         THEN <<"@", "-">> \o NatStr(0 - timestamp[1].epoch)
    ELSE <<"@">> \o NatStr(timestamp[1].epoch)

\* "generated_" + hashlib.md5(id_string.encode()).hexdigest()[:16]: the
\* 64-bit digest prefix is taken as free of collisions, so the identifier
\* stands for the string that was hashed.
GeneratedId(id_string) == <<"generated_", "md5(">> \o id_string \o <<")">>

\* An identifier made from the whole content and the timestamp.
IdFromWhole(content, timestamp) ==
    IF content # <<>> \/ timestamp # NoTime
    THEN GeneratedId(content \o <<"_">> \o TimeStr(timestamp))
    ELSE None

\* The identifier made from a content and a timestamp, None without both.
IdFrom(content, timestamp) ==
    IF content # <<>> \/ timestamp # NoTime
    THEN GeneratedId(Take(content, IdContentChars) \o <<"_">>
                       \o TimeStr(timestamp))
    ELSE None

\* Method 5: the identifier made from the content and the timestamp.
FallbackId(tree, i) ==
    IdFrom(ExtractContent(tree, i), ExtractTimestamp(tree, i))

\* What every link gives extract_post_id.
LinkIds(hrefs) == [k \in 1..Len(hrefs) |-> LinkId(hrefs[k])]

\* Method 2: the story key of the data-ft attribute.
DataFtId(data_ft) == IF Truthy(data_ft) THEN StoryKey(data_ft) ELSE None

\* Method 3: the long number of the aria-label attribute.
AriaLabelId(aria_label) ==
    IF Truthy(aria_label) THEN LongNumber(aria_label) ELSE None

\* Method 4: the id attribute that starts with a post prefix.
ElementId(element_id) ==
    IF /\ Truthy(element_id)
       /\ \E prefix \in ELEMENT_ID_PREFIXES : StartsWith(element_id, prefix)
    THEN element_id
    ELSE None

\* The try block of extract_post_id: the first method that gives an
\* identifier.
TryPostId(tree, i) ==
    [raised |-> Raises(tree, i, "id"),
     value  |->
       FirstNotNone(LinkIds(Hrefs(tree, i)),
         OrElse(DataFtId(Get(tree, i, "data-ft")),
           OrElse(AriaLabelId(Get(tree, i, "aria-label")),
             OrElse(ElementId(Get(tree, i, "id")),
                    FallbackId(tree, i)))))]

\* extract_post_id(post_element): the except clause falls through to
\* return None.
ExtractPostId(tree, i) == OrDefault(TryPostId(tree, i), None)

(***************************************************************************)
(* parse_post                                                              *)
(***************************************************************************)

\* A check of the identifier against None only.
HasPostIdNotNone(post_id) == post_id # None

\* A check that asks for content and media together.
HasContentAndMedia(content, media_urls) == content # <<>> /\ media_urls # <<>>

\* "if not post_id" fails: the identifier is neither None nor empty.
HasPostId(post_id) == Truthy(post_id)

\* "if not content and not media_urls" fails.
HasContentOrMedia(content, media_urls) == content # <<>> \/ media_urls # <<>>

\* What parse_post returns for the values of the sub-extractors: a one-tuple
\* with post_data, or the empty tuple for None.
PostData(post_id, page_name, content, media_urls, posted_at, engagement, post_url) ==
    IF ~HasPostId(post_id) THEN <<>>
    ELSE IF ~HasContentOrMedia(content, media_urls) THEN <<>>
    ELSE <<[post_id    |-> post_id,
            page_name  |-> page_name,
            content    |-> content,
            media_urls |-> media_urls,
            posted_at  |-> posted_at,
            engagement |-> engagement,
            post_url   |-> post_url]>>

\* parse_post(post_element, page_name).  The sub-extractors raise nothing, so
\* the except clause of parse_post is never entered; they change nothing
\* either, so the three that the early returns skip may be taken as called.
ParsePost(tree, i, page_name) ==
    PostData(ExtractPostId(tree, i), page_name, ExtractContent(tree, i),
             ExtractMediaUrls(tree, i), ExtractTimestamp(tree, i),
             ExtractEngagement(tree, i), ExtractPostUrl(tree, i))

(***************************************************************************)
(* find_posts: the candidates                                              *)
(***************************************************************************)

Article == <<"a", "r", "t", "i", "c", "l", "e">>

FbfeedStory == <<"f", "b", "f", "e", "e", "d", "_", "s", "t", "o", "r", "y">>

\* post_selectors[k] applied to a node
PostSelector(k, tree, j) ==
    LET pagelet == Get(tree, j, "data-pagelet")
        classes == ClassList(tree, j)
        Feed(x) == /\ Contains(x, <<"x", "1", "y", "z", "t", "b", "d", "b">>)
                   /\ Contains(x, <<"x", "1", "n", "2", "o", "n", "r", "6">>)
    IN  CASE k = 1 -> Get(tree, j, "role") = Article
          [] k = 2 -> Truthy(pagelet) /\ Contains(pagelet, <<"F", "e", "e", "d", "U", "n", "i", "t">>)
          [] k = 3 -> Truthy(pagelet) /\ Contains(pagelet, <<"C", "o", "m", "p", "o", "n", "e", "n", "t">>)
          [] k = 4 -> Get(tree, j, "data-testid") = FbfeedStory
          [] k = 5 -> /\ "class" \in DOMAIN tree[j].attrs
                      /\ \/ \E c \in 1..Len(classes) : Feed(classes[c])
                         \/ Feed(ClassStr(tree, j))

NumSelectors == 5

\* self.soup.find_all("div", post_selectors[k]), in document order
FindAllDiv(tree, k) ==
    Sorted({j \in 1..Len(tree) :
              tree[j].tag = "div" /\ PostSelector(k, tree, j)})

\* str(post_elem.get("class", "")): the list written out, "" without a class.
ClassRepr(tree, j) ==
    LET classes == ClassList(tree, j)
    IN  IF "class" \notin DOMAIN tree[j].attrs THEN <<>>
        ELSE <<"[">>
               \o Join([c \in 1..Len(classes) |->
                          <<"'">> \o classes[c] \o <<"'">>], <<",", " ">>)
               \o <<"]">>

\* The broad exclusion of comments and replies.
IsExcluded(tree, j) ==
    \E cls \in {<<"c", "o", "m", "m", "e", "n", "t">>, <<"r", "e", "p", "l", "y">>} :
      Contains(ClassRepr(tree, j), cls)

(***************************************************************************)
(* The markup the model runs on                                            *)
(***************************************************************************)

\* The most links a generated candidate holds.
MaxLinks == 2

\* The most find_posts calls made on the parser instance.
MaxCalls == 3

UserContentDiv(depth, text) ==
    <<Tok("div", depth, "class" :> <<UserContent>>), Txt(depth + 1, text)>>

Link(depth, href) == <<Tok("a", depth, "href" :> href)>>

\* A feed whose second post precedes its first in selector order, and whose
\* second post wraps another matched element.
Feed1 ==
    <<Tok("div", 0, "data-testid" :> FbfeedStory)>>
      \o Link(1, <<"/", "p", "o", "s", "t", "s", "/", "1">>)
      \o UserContentDiv(1, <<"a", "a">>)
      \o <<Tok("div", 0, "role" :> Article)>>
      \o Link(1, <<"/", "p", "o", "s", "t", "s", "/", "2">>)
      \o UserContentDiv(1, <<"b", "b">>)
      \o <<Tok("div", 1, "role" :> Article)>>
      \o Link(2, <<"/", "p", "o", "s", "t", "s", "/", "3">>)
      \o UserContentDiv(2, <<"c", "c">>)

\* A feed with a post matched by two selectors that wraps a matched element,
\* an element with nothing to extract, a second post linking to the story of
\* the first, and a comment that wraps a post.
Feed2 ==
    <<Tok("div", 0, ("role" :> Article)
                      @@ ("data-pagelet" :> <<"F", "e", "e", "d", "U", "n", "i", "t", "_", "0">>))>>
      \o Link(1, <<"/", "p", "o", "s", "t", "s", "/", "7">>)
      \o UserContentDiv(1, <<"c", "c">>)
      \o <<Tok("div", 1, "role" :> Article)>>
      \o Link(2, <<"/", "p", "o", "s", "t", "s", "/", "8">>)
      \o UserContentDiv(2, <<"n", "n">>)
      \o <<Tok("div", 0, "role" :> Article)>>
      \o <<Tok("div", 0, "role" :> Article)>>
      \o Link(1, <<"/", "p", "o", "s", "t", "s", "/", "7">>)
      \o UserContentDiv(1, <<"d", "d">>)
      \o <<Tok("div", 0, ("role" :> Article)
                           @@ ("class" :> <<<<"c", "o", "m", "m", "e", "n", "t">>>>))>>
      \o Link(1, <<"/", "p", "o", "s", "t", "s", "/", "5">>)
      \o UserContentDiv(1, <<"e", "e">>)
      \o <<Tok("div", 1, "role" :> Article)>>
      \o Link(2, <<"/", "p", "o", "s", "t", "s", "/", "6">>)
      \o UserContentDiv(2, <<"h", "h">>)

\* A feed with a post on which the identifier extractor faults, a post whose
\* timestamp does not parse and a post without any link, whose identifier is
\* generated.
Feed3 ==
    <<Tok("div", 0, ("role" :> Article) @@ ("raises" :> {"id"}))>>
      \o Link(1, <<"/", "p", "o", "s", "t", "s", "/", "4">>)
      \o UserContentDiv(1, <<"f", "f">>)
      \o <<Tok("div", 0, "role" :> Article)>>
      \o Link(1, <<"/", "p", "o", "s", "t", "s", "/", "9">>)
      \o <<Tok("abbr", 1, "data-utime" :> <<"x">>)>>
      \o UserContentDiv(1, <<"z", "z">>)
      \o <<Tok("div", 0, "data-pagelet" :> <<"F", "e", "e", "d", "U", "n", "i", "t", "_", "1">>)>>
      \o <<Tok("abbr", 1, "data-utime" :> <<"5">>)>>
      \o UserContentDiv(1, <<"g", "g">>)

Feeds == <<Feed1, Feed2, Feed3>>

\* The page names find_posts is called with.
Pages == {"pageA", "pageB"}

\* The link targets of the generated candidates: a post path, a post path
\* with an empty identifier, a story parameter with a tracking parameter, a
\* video path with a comment identifier, a permalink path with two kept
\* parameters around a dropped one, and an absolute post URL with a story
\* parameter and a comment identifier.
HrefPool ==
    <<<<"/", "p", "o", "s", "t", "s", "/", "1">>,
      <<"/", "p", "o", "s", "t", "s", "/", "?", "x">>,
      <<"?", "s", "t", "o", "r", "y", "_", "f", "b", "i", "d", "=", "9", "&", "x", "=", "1">>,
      <<"/", "v", "i", "d", "e", "o", "s", "/", "5", "/", "?", "c", "o", "m", "m", "e", "n", "t", "_", "i", "d", "=", "3">>,
      <<"/", "p", "e", "r", "m", "a", "l", "i", "n", "k", "/", "6", "?", "v", "=", "2", "&", "r", "e", "f", "=", "1", "&", "i", "d", "=", "3">>,
      <<"h", "t", "t", "p", "s", ":", "/", "/", "w", "w", "w", ".", "f", "a", "c", "e", "b", "o", "o", "k", ".", "c", "o", "m", "/", "p", "/", "p", "o", "s", "t", "s", "/", "1", "1", "1", "?", "s", "t", "o", "r", "y", "_", "f", "b", "i", "d", "=", "1", "1", "1", "&", "c", "o", "m", "m", "e", "n", "t", "_", "i", "d", "=", "2", "2", "2">>>>

\* The attributes of the generated candidates besides their role: none, a
\* story key, a long number in the label, a post id, a hyperfeed id behind a
\* label without a long number, and all three.
AttrPool ==
    <<<<>>,
      "data-ft" :> <<"{", "\"", "m", "f", "_", "s", "t", "o", "r", "y", "_", "k", "e", "y", "\"", ":", "\"", "7", "7", "\"", "}">>,
      "aria-label" :> <<"P", "o", "s", "t", " ", "1", "2", "3", "4", "5", "6", "7", "8", "9", "0">>,
      "id" :> <<"p", "o", "s", "t", "_", "1">>,
      ("aria-label" :> <<"P", "o", "s", "t", " ", "1", "2">>) @@ ("id" :> <<"h", "y", "p", "e", "r", "f", "e", "e", "d", "_", "2">>),
      ("data-ft" :> <<"{", "\"", "m", "f", "_", "s", "t", "o", "r", "y", "_", "k", "e", "y", "\"", ":", "\"", "7", "7", "\"", "}">>)
        @@ ("aria-label" :> <<"P", "o", "s", "t", " ", "1", "2", "3", "4", "5", "6", "7", "8", "9", "0">>)
        @@ ("id" :> <<"p", "o", "s", "t", "_", "1">>)>>

\* A text that writes the three counters.
CountersText ==
    <<"1", ",", "2", "3", "4", " ", "l", "i", "k", "e", "s", " ", "5", "6", " ",
      "c", "o", "m", "m", "e", "n", "t", "s", " ", "3", " ", "s", "h", "a", "r",
      "e", "s">>

\* A text with a comma and no digit before its like keyword, without a
\* comment keyword, and with a share counter.
NoLikesText ==
    <<",", " ", "l", "i", "k", "e", "s", " ", "a", "n", "d", " ", "7", " ", "s",
      "h", "a", "r", "e", "s", " ", "s", "o", " ", "f", "a", "r">>

\* A free paragraph that the global fallback keeps.
FreeText ==
    <<Tok("p", 1, <<>>),
      Txt(2, <<"A", " ", "f", "r", "e", "e", " ", "p", "a", "r", "a", "g", "r", "a", "p", "h", " ", "o", "f", " ", "t", "h", "e", " ", "p", "o", "s", "t">>)>>

\* As many characters as the generated identifier takes from the content.
LongPrefix == [k \in 1..IdContentChars |-> "a"]

\* The text parts of the generated candidates: none, a legacy container, a
\* message container with two spans, a long free text, the three counters, a
\* like counter without digits before a share counter, and two texts that
\* differ after their first IdContentChars characters only; and before a
\* free paragraph: an empty legacy container, a message container under its
\* old name with a legacy container, an empty message container with a
\* legacy container, and a fragment with a body class with a legacy
\* container.
TextPool ==
    <<<<>>,
      UserContentDiv(1, <<" ", "h", "i", " ">>),
      <<Tok("div", 1, "data-ad-comet-preview" :> Message),
        Tok("span", 2, <<>>), Txt(3, <<"H", "e", "l", "l", "o">>),
        Tok("span", 2, <<>>), Txt(3, <<"W", "o", "r", "l", "d">>)>>,
      <<Tok("p", 1, <<>>),
        Txt(2, <<"A", " ", "l", "o", "n", "g", " ", "e", "n", "o", "u", "g", "h", " ", "b", "o", "d", "y", " ", "t", "e", "x", "t", " ", "S", "e", "e", " ", "m", "o", "r", "e">>)>>,
      <<Tok("p", 1, <<>>),
        Txt(2, CountersText)>>,
      <<Tok("p", 1, <<>>),
        Txt(2, NoLikesText)>>,
      <<Tok("p", 1, <<>>), Txt(2, LongPrefix \o <<"b">>)>>,
      <<Tok("p", 1, <<>>), Txt(2, LongPrefix \o <<"c">>)>>,
      <<Tok("div", 1, "class" :> <<UserContent>>)>> \o FreeText,
      <<Tok("div", 1, "data-ad-preview" :> Message),
        Tok("span", 2, <<>>), Txt(3, <<"H", "e", "l", "l", "o">>),
        Tok("span", 2, <<>>), Txt(3, <<"W", "o", "r", "l", "d">>)>>
        \o UserContentDiv(1, <<"z", "z">>) \o FreeText,
      <<Tok("div", 1, "data-ad-comet-preview" :> Message)>>
        \o UserContentDiv(1, <<" ", "h", "i", " ">>) \o FreeText,
      <<Tok("span", 1, ("dir" :> Auto)
                         @@ ("class" :> <<<<"x", "1", "1", "i", "5", "r", "n", "m">>>>)),
        Txt(2, <<"b", "o", "d", "y">>)>>
        \o UserContentDiv(1, <<"z", "z">>) \o FreeText>>

\* The texts that hold a container before a free paragraph.
ChainTexts ==
    {x \in 1..Len(TextPool) :
       /\ TextPool[x] # <<>>
       /\ TextPool[x][1].tag # "p"
       /\ \E k \in 1..Len(TextPool[x]) : TextPool[x][k].tag = "p"}

\* The media parts: none; a repeated image, a second source and a video
\* repeating the first; a tiny image and a background image; an image, the
\* same image again, an image on which the library raises, and a video;
\* images with a width that is no number before a small height, with a
\* large width, with a small width before a height that is no number, with
\* a width that is no number, and with a small height in pixels.
MediaPool ==
    <<<<>>,
      <<Tok("img", 1, "src" :> <<"a", ".", "j", "p", "g">>),
        Tok("img", 1, ("src" :> <<"a", ".", "j", "p", "g">>)
                        @@ ("data-src" :> <<"b", ".", "j", "p", "g">>)),
        Tok("video", 1, "src" :> <<"a", ".", "j", "p", "g">>)>>,
      <<Tok("img", 1, ("src" :> <<"a", ".", "j", "p", "g">>)
                        @@ ("width" :> <<"5", "0">>)),
        Tok("div", 1, "style" :> <<"b", "a", "c", "k", "g", "r", "o", "u", "n", "d", "-", "i", "m", "a", "g", "e", ":", " ", "u", "r", "l", "(", "'", "c", ".", "j", "p", "g", "'", ")">>)>>,
      <<Tok("img", 1, "src" :> <<"a", ".", "j", "p", "g">>),
        Tok("img", 1, "src" :> <<"a", ".", "j", "p", "g">>),
        Tok("img", 1, ("src" :> <<"b", ".", "j", "p", "g">>) @@ ("raises" :> {"media"})),
        Tok("video", 1, "src" :> <<"c", ".", "m", "p", "4">>)>>,
      <<Tok("img", 1, ("src" :> <<"d", ".", "j", "p", "g">>) @@ ("width" :> <<"a", "u", "t", "o">>)
                        @@ ("height" :> <<"5", "0">>)),
        Tok("img", 1, ("src" :> <<"e", ".", "j", "p", "g">>) @@ ("width" :> <<"2", "0", "0">>)),
        Tok("img", 1, ("src" :> <<"f", ".", "j", "p", "g">>) @@ ("width" :> <<"5", "0">>)
                        @@ ("height" :> <<"x">>)),
        Tok("img", 1, ("src" :> <<"g", ".", "j", "p", "g">>) @@ ("width" :> <<"a", "u", "t", "o">>)),
        Tok("img", 1, ("src" :> <<"h", ".", "j", "p", "g">>) @@ ("height" :> <<"9", "9", "p", "x">>))>>>>

\* The time parts: none, an epoch, an epoch that is no number; and with two
\* elements: a bare element before a datetime in Zulu time, an epoch that is
\* no number before an epoch, a bare element before an element with an
\* epoch and a datetime, and a datetime that is none before an epoch.
TimePool ==
    <<<<>>,
      <<Tok("abbr", 1, "data-utime" :> <<"5">>)>>,
      <<Tok("abbr", 1, "data-utime" :> <<"x">>)>>,
      <<Tok("abbr", 1, <<>>),
        Tok("time", 1, "datetime" :> <<"2", "0", "2", "4", "-", "0", "1", "-", "0", "2", "T", "0", "3", ":", "0", "4", ":", "0", "5", "Z">>)>>,
      <<Tok("abbr", 1, "data-utime" :> <<"x">>),
        Tok("abbr", 1, "data-utime" :> <<"7">>)>>,
      <<Tok("abbr", 1, <<>>),
        Tok("time", 1, ("data-utime" :> <<"7">>)
                         @@ ("datetime" :> <<"2", "0", "2", "4", "-", "0", "1", "-", "0", "2">>))>>,
      <<Tok("time", 1, "datetime" :> <<"b", "a", "d">>),
        Tok("abbr", 1, "data-utime" :> <<"7">>)>>>>

\* The time parts with one time-like element at most.
PlainTimes == {c \in 1..Len(TimePool) : Len(TimePool[c]) <= 1}

\* The six sub-extractors of parse_post.
Extractors == {"id", "content", "media", "timestamp", "engagement", "url"}

LinkSeqs(n) == UNION {[1..k -> 1..Len(HrefPool)] : k \in 0..n}

\* The texts of TextPool that are longer than IdContentChars characters.
LongTexts ==
    {x \in 1..Len(TextPool) :
       \E k \in 1..Len(TextPool[x]) :
         /\ TextPool[x][k].tag = "#text"
         /\ Len(TextPool[x][k].text) > IdContentChars}

\* The generated candidates: those that vary in their links (up to MaxLinks
\* of them) and hold no text or a short one; those that vary in every part
\* but hold no long text, and no link or the first one, on which at most one
\* sub-extractor raises; those that vary in their attributes and hold at
\* most one link; those that hold a long text; those that hold two
\* time-like elements; and those that hold the first link and a container
\* before a free paragraph.
Candidates ==
    {[links |-> l, attrs |-> 1, text |-> x, media |-> 1, time |-> 1,
      raises |-> {}] :
       l \in LinkSeqs(MaxLinks), x \in 1..2}
    \cup
    {[links |-> l, attrs |-> 1, text |-> x, media |-> m, time |-> c,
      raises |-> r] :
       l \in {<<>>, <<1>>}, x \in (1..Len(TextPool)) \ (LongTexts \cup ChainTexts),
       m \in 1..Len(MediaPool), c \in PlainTimes,
       r \in {{}} \cup {{e} : e \in Extractors}}
    \cup
    {[links |-> l, attrs |-> a, text |-> x, media |-> 1, time |-> 1,
      raises |-> {}] :
       l \in LinkSeqs(1), a \in 1..Len(AttrPool), x \in 1..2}
    \cup
    {[links |-> <<>>, attrs |-> 1, text |-> x, media |-> 1, time |-> c,
      raises |-> {}] :
       x \in LongTexts, c \in PlainTimes}
    \cup
    {[links |-> <<>>, attrs |-> 1, text |-> x, media |-> 1, time |-> c,
      raises |-> r] :
       x \in 1..2, c \in (1..Len(TimePool)) \ PlainTimes,
       r \in {{}, {"timestamp"}}}
    \cup
    {[links |-> <<1>>, attrs |-> 1, text |-> x, media |-> 1, time |-> 1,
      raises |-> r] :
       x \in ChainTexts, r \in {{}, {"content"}}}

\* The markup of a generated candidate: one article element.
CandidateMarkup(c) ==
    <<Tok("div", 0, ("role" :> Article) @@ ("raises" :> c.raises)
                      @@ AttrPool[c.attrs])>>
      \o Flatten([k \in 1..Len(c.links) |-> Link(1, HrefPool[c.links[k]])])
      \o TextPool[c.text]
      \o MediaPool[c.media]
      \o TimePool[c.time]

\* The documents: feed n, or a generated candidate.
Markup(d) == IF "feed" \in DOMAIN d THEN Feeds[d.feed] ELSE CandidateMarkup(d)

FeedIds == {[feed |-> n] : n \in 1..Len(Feeds)}

\* The tree parsed from the markup of every document.
TreeOf == [d \in FeedIds \cup Candidates |-> BeautifulSoup(Markup(d))]

\* The tree parsed from document d.
Tree(d) == TreeOf[d]

\* An element: node idx of the tree parsed from doc.
Elem(d, j) == [doc |-> d, idx |-> j]

\* e1 == e2 for two Tag objects: equal names, attributes and contents.
TagEq(e1, e2) == Shape(Tree(e1.doc), e1.idx) = Shape(Tree(e2.doc), e2.idx)

(***************************************************************************)
(* find_posts, step by step, for callers sharing one parser instance       *)
(***************************************************************************)

Threads == {1, 2}

\* The crawl tasks that run in parallel, each with its own crawler and
\* database connection.
Tasks == {1, 2}

\* The post of a task that is in no save_post call.
NoPost == [post_id |-> None, content |-> <<>>]

\* The command line before it is parsed.
NoArgv == [page |-> None, name |-> None]

\* self.soup before the first parse_html
NoSoup == [feed |-> 0]

\* The arguments of a caller that is in no call.
NoArgs == [html_content |-> NoSoup, page_name |-> "pageA"]

\* Markup on which BeautifulSoup(html_content, "lxml") raises.
Unparseable == [feed |-> Len(Feeds) + 1]

\* Whether the tree of the pooled element other holds, below other, a tag
\* equal to elem.
HasEqualBelow(elem, other, tree) ==
    \E j \in Descendants(tree, other.idx) :
      /\ tree[j].tag # "#text"
      /\ TagEq(elem, Elem(other.doc, j))

\* The deduplication by hierarchy: elem is dropped when another pooled
\* element is unequal to it and has a descendant equal to it.
IsChild(elem, pool) ==
    \E p \in 1..Len(pool) :
      /\ ~TagEq(elem, pool[p])
      /\ HasEqualBelow(elem, pool[p], Tree(pool[p].doc))

UniquePosts(pool) == SelectSeq(pool, LAMBDA elem : ~IsChild(elem, pool))

\* The second look at post_data in find_posts.
HasQuality(post_data) ==
    Strip(post_data.content) # <<>> \/ post_data.media_urls # <<>>

\* A loop body that takes no look at the class of the element.
KeptAnyClass(excluded, post_data) ==
    IF post_data # <<>> /\ HasQuality(post_data[1]) THEN post_data
    ELSE <<>>

\* What the loop body appends for an element with the given exclusion and
\* the given result of parse_post.
Kept(excluded, post_data) ==
    IF excluded THEN <<>>
    ELSE IF post_data # <<>> /\ HasQuality(post_data[1]) THEN post_data
    ELSE <<>>

\* The body of the loop over unique_posts for node j of a tree: what it
\* appends to posts.
ProcessedNode(tree, j, page_name) ==
    Kept(IsExcluded(tree, j), ParsePost(tree, j, page_name))

\* The body of the loop over unique_posts for one element.
Processed(elem, page_name) == ProcessedNode(Tree(elem.doc), elem.idx, page_name)

\* What every div of a tree gives, for every page name.
ProcessedTree(tree) ==
    [j \in 1..Len(tree) |-> [p \in Pages |->
       IF tree[j].tag = "div" THEN ProcessedNode(tree, j, p) ELSE <<>>]]

\* What every element of every feed gives, for every page name.
ProcessedFeed == [d \in FeedIds |-> ProcessedTree(Tree(d))]

\* The fields of a candidate before any sub-extractor has run.
EmptyDraft ==
    [post_id    |-> None,
     content    |-> <<>>,
     media_urls |-> <<>>,
     posted_at  |-> NoTime,
     engagement |-> [likes |-> 0, comments |-> 0, shares |-> 0],
     post_url   |-> <<>>]

\* The candidate of a parse_post that is not running.
NoCand ==
    [links |-> <<>>, attrs |-> 1, text |-> 1, media |-> 1, time |-> 1,
     raises |-> {}]

InitPost ==
    /\ cand = NoCand
    /\ ppc = "idle"
    /\ draft = EmptyDraft
    /\ ran = {}
    /\ caught = {}
    /\ outcome = "none"

InitFind ==
    /\ soup = NoSoup
    /\ pc = [t \in Threads |-> "idle"]
    /\ args = [t \in Threads |-> NoArgs]
    /\ sel = [t \in Threads |-> 1]
    /\ all_potential_elements = [t \in Threads |-> <<>>]
    /\ unique_posts = [t \in Threads |-> <<>>]
    /\ pos = [t \in Threads |-> 1]
    /\ posts = [t \in Threads |-> <<>>]
    /\ origin = [t \in Threads |-> <<>>]
    /\ returned = <<>>
    /\ crawled = <<>>
    /\ calls = 0

\* No save_post call has been made on the empty table.
InitSave ==
    /\ fb_posts = <<>>
    /\ dbpc = [w \in Tasks |-> "idle"]
    /\ saving = [w \in Tasks |-> NoPost]
    /\ saved = <<>>
    /\ nsaves = 0

\* main has not started.
InitMain ==
    /\ argv = NoArgv
    /\ page_url = None
    /\ log_name = None
    /\ cpc = "parse_args"

\* results of run as it starts, and stats of save_posts_to_db as it starts.
NoResults ==
    [success |-> FALSE, posts_found |-> 0, posts_new |-> 0,
     posts_updated |-> 0, error |-> None]

NoStats == [new |-> 0, updated |-> 0, failed |-> 0]

\* The names of the pages that are added to and removed from fb_pages.
PageNames == {<<"p">>, <<"q">>}

\* run has not been called.
InitRun ==
    /\ rpc = "idle"
    /\ save_to_db = FALSE
    /\ browser = "none"
    /\ connection = "none"
    /\ log_id = 0
    /\ crawl_logs = <<>>
    /\ results = NoResults
    /\ found = <<>>
    /\ stats = NoStats
    /\ outcomes = <<>>
    /\ exc = None
    /\ raised_at = {}
    /\ swallowed = FALSE

\* No page is monitored and the task has not started.
InitPages ==
    /\ fb_pages = <<>>
    /\ last_op = [n \in PageNames |-> "none"]
    /\ mops = 0
    /\ tpc = "idle"
    /\ active_pages = <<>>
    /\ dispatched = <<>>

InitRest == InitRun /\ InitPages

Init == InitFind /\ InitPost /\ InitSave /\ post_id_unique = FALSE /\ InitMain /\ InitRest

\* The arguments of the calls: every feed under every page name, and the
\* unparseable markup, for which the page name plays no part.
CallArgs ==
    {[html_content |-> d, page_name |-> p] : d \in FeedIds, p \in Pages}
      \cup {[html_content |-> Unparseable, page_name |-> "pageA"]}

\* crawl_page calls self.parser.find_posts(html_content, page_name).
Call(t) ==
    /\ pc[t] = "idle"
    /\ calls < MaxCalls
    /\ \E a \in CallArgs : args' = [args EXCEPT ![t] = a]
    /\ calls' = calls + 1
    /\ pc' = [pc EXCEPT ![t] = "parse_html"]
    /\ UNCHANGED <<soup, sel, all_potential_elements, unique_posts, pos, posts,
                   origin, returned, crawled>>
    /\ UNCHANGED <<postVars, dbVars, cliVars, runVars, pageVars>>

\* The constructor of the tree raises: self.soup keeps its value and the
\* exception leaves parse_html and find_posts.
ParseRaises(t) ==
    /\ pc' = [pc EXCEPT ![t] = "raised"]
    /\ UNCHANGED <<soup, posts, origin, all_potential_elements, sel>>

\* The locals of find_posts after self.parse_html(html_content); posts = [].
Parsed(t) ==
    /\ posts' = [posts EXCEPT ![t] = <<>>]
    /\ origin' = [origin EXCEPT ![t] = <<>>]
    /\ all_potential_elements' = [all_potential_elements EXCEPT ![t] = <<>>]
    /\ sel' = [sel EXCEPT ![t] = 1]
    /\ pc' = [pc EXCEPT ![t] = "select"]

\* A parse_html that keeps the tree of an earlier call.
ParseHtmlCached(t) ==
    /\ pc[t] = "parse_html"
    /\ IF args[t].html_content = Unparseable
       THEN ParseRaises(t)
       ELSE /\ soup' = IF soup = NoSoup THEN args[t].html_content ELSE soup
            /\ Parsed(t)
    /\ UNCHANGED <<args, unique_posts, pos, returned, crawled, calls>>
    /\ UNCHANGED <<postVars, dbVars, cliVars, runVars, pageVars>>

\* A parse_html that swallows the fault of the constructor, after which
\* find_posts returns an empty list.
ParseHtmlLenient(t) ==
    /\ pc[t] = "parse_html"
    /\ IF args[t].html_content = Unparseable
       THEN /\ pc' = [pc EXCEPT ![t] = "return"]
            /\ UNCHANGED <<soup, posts, origin, all_potential_elements, sel>>
       ELSE /\ soup' = args[t].html_content
            /\ Parsed(t)
    /\ UNCHANGED <<args, unique_posts, pos, returned, crawled, calls>>
    /\ UNCHANGED <<postVars, dbVars, cliVars, runVars, pageVars>>

\* self.parse_html(html_content); posts = []; the title and the login check
\* read self.soup and only log.
ParseHtml(t) ==
    /\ pc[t] = "parse_html"
    /\ IF args[t].html_content = Unparseable
       THEN ParseRaises(t)
       ELSE /\ soup' = args[t].html_content
            /\ Parsed(t)
    /\ UNCHANGED <<args, unique_posts, pos, returned, crawled, calls>>
    /\ UNCHANGED <<postVars, dbVars, cliVars, runVars, pageVars>>

\* The nodes as elements of document d.
ElemsOf(d, nodes) == [k \in 1..Len(nodes) |-> Elem(d, nodes[k])]

\* One turn of the loop over post_selectors: the matches in self.soup, as it
\* is now, are appended to all_potential_elements.
Select(t) ==
    /\ pc[t] = "select"
    /\ all_potential_elements' =
         [all_potential_elements EXCEPT
            ![t] = @ \o ElemsOf(soup, FindAllDiv(Tree(soup), sel[t]))]
    /\ sel' = [sel EXCEPT ![t] = @ + 1]
    /\ pc' = [pc EXCEPT ![t] = IF sel[t] = NumSelectors THEN "dedup" ELSE "select"]
    /\ UNCHANGED <<soup, args, unique_posts, pos, posts, origin, returned, crawled, calls>>
    /\ UNCHANGED <<postVars, dbVars, cliVars, runVars, pageVars>>

\* The loop that fills unique_posts.
Dedup(t) ==
    /\ pc[t] = "dedup"
    /\ unique_posts' =
         [unique_posts EXCEPT ![t] = UniquePosts(all_potential_elements[t])]
    /\ pos' = [pos EXCEPT ![t] = 1]
    /\ pc' = [pc EXCEPT ![t] = "loop"]
    /\ UNCHANGED <<soup, args, sel, all_potential_elements, posts, origin,
                   returned, crawled, calls>>
    /\ UNCHANGED <<postVars, dbVars, cliVars, runVars, pageVars>>

\* The loop body has given got for elem: posts, and the element each record
\* comes from.
Gave(t, elem, got) ==
    /\ posts' = [posts EXCEPT ![t] = @ \o got]
    /\ origin' = [origin EXCEPT ![t] = @ \o [k \in 1..Len(got) |-> elem]]

\* The loop body runs on elem.
Turn(t, elem) ==
    Gave(t, elem, ProcessedFeed[elem.doc][elem.idx][args[t].page_name])

\* A loop over unique_posts that a candidate without a record ends.
LoopStopAtReject(t) ==
    /\ pc[t] = "loop"
    /\ IF pos[t] <= Len(unique_posts[t])
       THEN /\ Turn(t, unique_posts[t][pos[t]])
            /\ pos' = [pos EXCEPT ![t] = @ + 1]
            /\ pc' = IF posts'[t] = posts[t]
                     THEN [pc EXCEPT ![t] = "return"] ELSE pc
       ELSE /\ pc' = [pc EXCEPT ![t] = "return"]
            /\ UNCHANGED <<posts, origin, pos>>
    /\ UNCHANGED <<soup, args, sel, all_potential_elements, unique_posts,
                   returned, crawled, calls>>
    /\ UNCHANGED <<postVars, dbVars, cliVars, runVars, pageVars>>

\* One turn of the loop over unique_posts, or its end.
Loop(t) ==
    /\ pc[t] = "loop"
    /\ IF pos[t] <= Len(unique_posts[t])
       THEN /\ Turn(t, unique_posts[t][pos[t]])
            /\ pos' = [pos EXCEPT ![t] = @ + 1]
            /\ pc' = pc
       ELSE /\ pc' = [pc EXCEPT ![t] = "return"]
            /\ UNCHANGED <<posts, origin, pos>>
    /\ UNCHANGED <<soup, args, sel, all_potential_elements, unique_posts,
                   returned, crawled, calls>>
    /\ UNCHANGED <<postVars, dbVars, cliVars, runVars, pageVars>>

\* What the call of caller t is recorded as when it ends.
Ended(t, result, raised) ==
    [html_content |-> args[t].html_content,
     page_name    |-> args[t].page_name,
     posts        |-> result,
     raised       |-> raised]

\* The arguments and the locals of the call of caller t are gone.
Left(t) ==
    /\ pc' = [pc EXCEPT ![t] = "idle"]
    /\ args' = [args EXCEPT ![t] = NoArgs]
    /\ sel' = [sel EXCEPT ![t] = 1]
    /\ all_potential_elements' = [all_potential_elements EXCEPT ![t] = <<>>]
    /\ unique_posts' = [unique_posts EXCEPT ![t] = <<>>]
    /\ pos' = [pos EXCEPT ![t] = 1]
    /\ posts' = [posts EXCEPT ![t] = <<>>]
    /\ origin' = [origin EXCEPT ![t] = <<>>]

\* return posts: the result goes to crawl_page, which returns it.
Return(t) ==
    /\ pc[t] = "return"
    /\ returned' = Append(returned,
         [html_content |-> args[t].html_content,
          page_name    |-> args[t].page_name,
          posts        |-> posts[t]])
    /\ crawled' = Append(crawled, Ended(t, posts[t], FALSE))
    /\ Left(t)
    /\ UNCHANGED <<soup, calls>>
    /\ UNCHANGED <<postVars, dbVars, cliVars, runVars, pageVars>>

\* The except clause of crawl_page: the exception that left find_posts is
\* logged and crawl_page returns [].
Except(t) ==
    /\ pc[t] = "raised"
    /\ crawled' = Append(crawled, Ended(t, <<>>, TRUE))
    /\ Left(t)
    /\ UNCHANGED <<soup, returned, calls>>
    /\ UNCHANGED <<postVars, dbVars, cliVars, runVars, pageVars>>

\* A call is made only while no other call is running.
CallAlone(t) == (\A u \in Threads : pc[u] = "idle") /\ Call(t)

\* Every caller makes one call, at any time.
CallOnce(t) == calls < Cardinality(Threads) /\ Call(t)

\* Callers that run find_posts concurrently on one instance.
Next ==
    \E t \in Threads :
      CallOnce(t) \/ ParseHtml(t) \/ Select(t) \/ Dedup(t) \/ Loop(t) \/ Return(t)
        \/ Except(t)

Spec == Init /\ [][Next]_vars

\* Callers that run find_posts one call after the other on one instance.
NextSeq ==
    \E t \in Threads :
      CallAlone(t) \/ ParseHtml(t) \/ Select(t) \/ Dedup(t) \/ Loop(t)
        \/ Return(t) \/ Except(t)

SpecSeq == Init /\ [][NextSeq]_vars

\* find_posts(html_content, page_name) run on its own.
FindPostsAlone(d, page_name) ==
    LET tree   == Tree(d)
        pool   == Flatten([k \in 1..NumSelectors |->
                    LET elements == FindAllDiv(tree, k)
                    IN  [e \in 1..Len(elements) |-> Elem(d, elements[e])]])
        unique == UniquePosts(pool)
    IN  Flatten([k \in 1..Len(unique) |-> Processed(unique[k], page_name)])

\* The result of find_posts run on its own, for every feed and page name.
AloneResult == [d \in FeedIds |-> [p \in Pages |-> FindPostsAlone(d, p)]]

(***************************************************************************)
(* The loop body of find_posts on one candidate, step by step              *)
(***************************************************************************)

\* What the six sub-extractors give on the root element of a tree, and the
\* ones whose try block raised.
ExtractedFrom(tree) ==
    [excluded   |-> IsExcluded(tree, 1),
     post_id    |-> ExtractPostId(tree, 1),
     content    |-> ExtractContent(tree, 1),
     media_urls |-> ExtractMediaUrls(tree, 1),
     collected  |-> CollectedMedia(tree, 1),
     posted_at  |-> ExtractTimestamp(tree, 1),
     engagement |-> ExtractEngagement(tree, 1),
     post_url   |-> ExtractPostUrl(tree, 1),
     raised     |->
       {e \in Extractors :
          CASE e = "id"         -> TryPostId(tree, 1).raised
            [] e = "content"    -> TryContent(tree, 1).raised
            [] e = "media"      -> TryMedia(tree, 1).raised
            [] e = "timestamp"  -> TryTimestamp(tree, 1).raised
            [] e = "engagement" -> TryEngagement(tree, 1).raised
            [] e = "url"        -> TryPostUrl(tree, 1).raised}]

\* What the six sub-extractors give on every generated candidate.
Extracted == [c \in Candidates |-> ExtractedFrom(Tree(c))]

\* The candidate is the root element of its document.
Of == Extracted[cand]

InitCand ==
    /\ InitRest
    /\ InitFind
    /\ InitSave
    /\ post_id_unique = FALSE
    /\ InitMain
    /\ cand \in Candidates
    /\ ppc = "exclusion"
    /\ draft = EmptyDraft
    /\ ran = {}
    /\ caught = {}
    /\ outcome = "pending"

\* The sub-extractor has been called, and its except clause ran or not.
Called(name, raised) ==
    /\ ran' = ran \cup {name}
    /\ caught' = IF raised THEN caught \cup {name} ELSE caught

\* The broad exclusion at the head of the loop body.
Exclusion ==
    /\ ppc = "exclusion"
    /\ IF Of.excluded
       THEN ppc' = "done" /\ outcome' = "excluded"
       ELSE ppc' = "post_id" /\ outcome' = outcome
    /\ UNCHANGED <<cand, draft, ran, caught>>
    /\ UNCHANGED <<findVars, dbVars, cliVars, runVars, pageVars>>

\* post_id = self.extract_post_id(post_element); if not post_id: return None
PostId ==
    /\ ppc = "post_id"
    /\ draft' = [draft EXCEPT !.post_id = Of.post_id]
    /\ Called("id", "id" \in Of.raised)
    /\ IF HasPostId(draft'.post_id)
       THEN ppc' = "content" /\ outcome' = outcome
       ELSE ppc' = "done" /\ outcome' = "none"
    /\ UNCHANGED cand
    /\ UNCHANGED <<findVars, dbVars, cliVars, runVars, pageVars>>

\* content = self.extract_content(post_element)
PostContent ==
    /\ ppc = "content"
    /\ draft' = [draft EXCEPT !.content = Of.content]
    /\ Called("content", "content" \in Of.raised)
    /\ ppc' = "media"
    /\ UNCHANGED <<cand, outcome>>
    /\ UNCHANGED <<findVars, dbVars, cliVars, runVars, pageVars>>

\* media_urls = self.extract_media_urls(post_element)
PostMedia ==
    /\ ppc = "media"
    /\ draft' = [draft EXCEPT !.media_urls = Of.media_urls]
    /\ Called("media", "media" \in Of.raised)
    /\ ppc' = "timestamp"
    /\ UNCHANGED <<cand, outcome>>
    /\ UNCHANGED <<findVars, dbVars, cliVars, runVars, pageVars>>

\* posted_at = self.extract_timestamp(post_element)
PostTimestamp ==
    /\ ppc = "timestamp"
    /\ draft' = [draft EXCEPT !.posted_at = Of.posted_at]
    /\ Called("timestamp", "timestamp" \in Of.raised)
    /\ ppc' = "engagement"
    /\ UNCHANGED <<cand, outcome>>
    /\ UNCHANGED <<findVars, dbVars, cliVars, runVars, pageVars>>

\* A call of extract_engagement whose fault leaves parse_post.
PostEngagementUncaught ==
    /\ ppc = "engagement"
    /\ Called("engagement", FALSE)
    /\ IF "engagement" \in Of.raised
       THEN /\ ppc' = "done"
            /\ outcome' = "none"
            /\ draft' = draft
       ELSE /\ ppc' = "url"
            /\ outcome' = outcome
            /\ draft' = [draft EXCEPT !.engagement = Of.engagement]
    /\ UNCHANGED cand
    /\ UNCHANGED <<findVars, dbVars, cliVars, runVars, pageVars>>

\* engagement = self.extract_engagement(post_element)
PostEngagement ==
    /\ ppc = "engagement"
    /\ draft' = [draft EXCEPT !.engagement = Of.engagement]
    /\ Called("engagement", "engagement" \in Of.raised)
    /\ ppc' = "url"
    /\ UNCHANGED <<cand, outcome>>
    /\ UNCHANGED <<findVars, dbVars, cliVars, runVars, pageVars>>

\* post_url = self.extract_post_url(post_element)
PostUrl ==
    /\ ppc = "url"
    /\ draft' = [draft EXCEPT !.post_url = Of.post_url]
    /\ Called("url", "url" \in Of.raised)
    /\ ppc' = "validate"
    /\ UNCHANGED <<cand, outcome>>
    /\ UNCHANGED <<findVars, dbVars, cliVars, runVars, pageVars>>

\* if not content and not media_urls: return None; else return post_data
PostValidate ==
    /\ ppc = "validate"
    /\ IF HasContentOrMedia(draft.content, draft.media_urls)
       THEN ppc' = "quality" /\ outcome' = outcome
       ELSE ppc' = "done" /\ outcome' = "none"
    /\ UNCHANGED <<cand, draft, ran, caught>>
    /\ UNCHANGED <<findVars, dbVars, cliVars, runVars, pageVars>>

\* find_posts looks at post_data once more and appends it to posts.
Quality ==
    /\ ppc = "quality"
    /\ outcome' = IF HasQuality(draft) THEN "record" ELSE "none"
    /\ ppc' = "done"
    /\ UNCHANGED <<cand, draft, ran, caught>>
    /\ UNCHANGED <<findVars, dbVars, cliVars, runVars, pageVars>>

NextPost ==
    \/ Exclusion
    \/ PostId
    \/ PostContent
    \/ PostMedia
    \/ PostTimestamp
    \/ PostEngagement
    \/ PostUrl
    \/ PostValidate
    \/ Quality

\* The loop body of find_posts applied to every generated candidate.
SpecPost == InitCand /\ [][NextPost]_vars

\* The steps give what parse_post and the loop body give as a whole.
StepsAgree ==
    ppc = "done" =>
      LET got == Processed(Elem(cand, 1), "pageA")
      IN  IF outcome = "record"
          THEN got = <<[draft EXCEPT !.post_id = draft.post_id]
                         @@ [page_name |-> "pageA"]>>
          ELSE got = <<>>

(***************************************************************************)
(* Concurrent calls on one parser instance                                 *)
(***************************************************************************)

\* C1: two find_posts calls that run concurrently on one instance share no
\* intermediate state: under every interleaving each call pools candidates
\* of the tree parsed from its own markup only, and what it returns is what
\* the same call returns when it runs alone.
IndependentCalls ==
    \A t \in Threads :
      /\ \A k \in 1..Len(all_potential_elements[t]) :
           all_potential_elements[t][k].doc = args[t].html_content
      /\ pc[t] = "return" =>
           posts[t] = AloneResult[args[t].html_content][args[t].page_name]

(***************************************************************************)
(* The list find_posts returns                                             *)
(***************************************************************************)

\* C2: no two records of the list returned by one find_posts call carry the
\* same post_id.
UniquePostIds ==
    \A r \in 1..Len(returned) :
      LET got == returned[r].posts
      IN  \A i, j \in 1..Len(got) : i # j => got[i].post_id # got[j].post_id

\* C3: what find_posts returns is a function of its markup and page name
\* alone: two calls on the instance with the same arguments return the same
\* list of records, whatever calls were made in between, and every call
\* returns what a call on a fresh instance returns.
Deterministic ==
    /\ \A i, j \in 1..Len(returned) :
         (/\ returned[i].html_content = returned[j].html_content
          /\ returned[i].page_name = returned[j].page_name)
           => returned[i].posts = returned[j].posts
    /\ \A i \in 1..Len(returned) :
         returned[i].posts =
           AloneResult[returned[i].html_content][returned[i].page_name]

\* The same markup has been extracted twice with a call on other markup in
\* between, and the list returned both times holds a generated identifier.
SameMarkupTwice ==
    /\ Len(returned) >= 3
    /\ returned[3] = returned[1]
    /\ returned[2].html_content # returned[1].html_content
    /\ returned[2].posts # <<>>
    /\ \E k \in 1..Len(returned[3].posts) :
         returned[3].posts[k].post_id[1] = "generated_"

(***************************************************************************)
(* The validity of a record                                                *)
(***************************************************************************)

\* C4: every record has a non-empty post_id: when extract_post_id gives None
\* or the empty string, parse_post stops after it and the candidate gives no
\* record.
NonEmptyPostId ==
    /\ outcome = "record" => draft.post_id # None /\ Len(draft.post_id) > 0
    /\ (ppc = "done" /\ outcome # "excluded"
          /\ (Of.post_id = None \/ Of.post_id = <<>>))
         => outcome = "none" /\ ran = {"id"}

\* A candidate with text whose first link is "/posts/?x" has been processed:
\* the identifier captured is the empty string and there is no record.
EmptyCaptureNoRecord ==
    /\ ppc = "done"
    /\ Len(cand.links) >= 1
    /\ HrefPool[cand.links[1]] = <<"/", "p", "o", "s", "t", "s", "/", "?", "x">>
    /\ cand.text = 2
    /\ draft.post_id = <<>>
    /\ outcome = "none"

\* C5: no record has both empty content and an empty media_urls list, and a
\* draft with an identifier and content or media becomes a record that holds
\* what the six sub-extractors gave, unchanged.
ValidRecord ==
    /\ outcome = "record" => draft.content # <<>> \/ draft.media_urls # <<>>
    /\ (ppc = "done" /\ outcome # "excluded"
          /\ Of.post_id # None /\ Of.post_id # <<>>
          /\ (Of.content # <<>> \/ Of.media_urls # <<>>))
         => /\ outcome = "record"
            /\ draft = [post_id    |-> Of.post_id,
                        content    |-> Of.content,
                        media_urls |-> Of.media_urls,
                        posted_at  |-> Of.posted_at,
                        engagement |-> Of.engagement,
                        post_url   |-> Of.post_url]

\* A record without content that holds media.
MediaOnlyRecord ==
    /\ outcome = "record"
    /\ draft.content = <<>>
    /\ draft.media_urls # <<>>

(***************************************************************************)
(* The media list                                                          *)
(***************************************************************************)

\* The index of the first occurrence of x in urls.
FirstIndex(urls, x) == Min({k \in 1..Len(urls) : urls[k] = x})

\* C6: the list extract_media_urls returns repeats no URL, holds the URLs
\* collected and no other, and orders them by their first occurrence among
\* the URLs collected, also when collecting stopped at a fault.
MediaDedup ==
    "media" \in ran =>
      LET out == draft.media_urls
          col == Of.collected
      IN  /\ \A i, j \in 1..Len(out) : i # j => out[i] # out[j]
          /\ {out[k] : k \in 1..Len(out)} = {col[k] : k \in 1..Len(col)}
          /\ \A i, j \in 1..Len(out) :
               i < j => FirstIndex(col, out[i]) < FirstIndex(col, out[j])

\* Collecting stopped at a fault after a URL had been collected twice.
FaultAfterRepeat ==
    /\ "media" \in caught
    /\ draft.media_urls # <<>>
    /\ Len(Of.collected) > Len(draft.media_urls)

(***************************************************************************)
(* The candidates of find_posts                                            *)
(***************************************************************************)

\* The elements pooled by call t that are strict ancestors of element e.
PooledAbove(t, e) ==
    {all_potential_elements[t][p] : p \in
       {p \in 1..Len(all_potential_elements[t]) :
          /\ all_potential_elements[t][p].doc = e.doc
          /\ all_potential_elements[t][p].idx \in Ancestors(Tree(e.doc), e.idx)}}

\* C7: when the selector matches hold an element and a strict ancestor of
\* it, the descendant is discarded, no record is taken from it, and the
\* logical post gives one record at most, taken from its outermost matched
\* element.
OuterWins ==
    \A t \in Threads :
      pc[t] = "return" =>
        \A k \in 1..Len(all_potential_elements[t]) :
          LET e     == all_potential_elements[t][k]
              above == PooledAbove(t, e)
              outer == CHOOSE a \in above : \A b \in above : a.idx <= b.idx
          IN  above # {} =>
                /\ \A m \in 1..Len(unique_posts[t]) : unique_posts[t][m] # e
                /\ \A m \in 1..Len(origin[t]) : origin[t][m] \notin above \ {outer}
                /\ \A m \in 1..Len(origin[t]) : origin[t][m] # e
                /\ Cardinality({m \in 1..Len(origin[t]) : origin[t][m] = outer}) <= 1

\* C8: the records are returned in the document order of the elements they
\* are taken from, whichever selector matched each element.
DocumentOrder ==
    \A t \in Threads :
      \A i, j \in 1..Len(origin[t]) :
        i < j => origin[t][i].idx <= origin[t][j].idx

(***************************************************************************)
(* Faults                                                                  *)
(***************************************************************************)

\* What the loop body gives on the k-th of the unique posts of call t.
GotFrom(t, k) ==
    ProcessedFeed[unique_posts[t][k].doc][unique_posts[t][k].idx][args[t].page_name]

\* C9: a candidate whose extraction faulted or that was rejected stops
\* nothing: the loop of find_posts goes through every one of the unique
\* posts, and the list returned holds the records of all the valid ones.
CandidateIsolation ==
    \A t \in Threads :
      /\ pc[t] = "loop" =>
           posts[t] = Flatten([k \in 1..(pos[t] - 1) |-> GotFrom(t, k)])
      /\ pc[t] = "return" =>
           /\ pos[t] = Len(unique_posts[t]) + 1
           /\ posts[t] = Flatten([k \in 1..Len(unique_posts[t]) |-> GotFrom(t, k)])

\* find_posts returns the record of a candidate it processed after one on
\* which extract_post_id faulted and which gave no record.
RecordAfterFault ==
    \E t \in Threads :
      /\ pc[t] = "return"
      /\ \E k, m \in 1..Len(unique_posts[t]) :
           /\ k < m
           /\ TryPostId(Tree(unique_posts[t][k].doc), unique_posts[t][k].idx).raised
           /\ GotFrom(t, k) = <<>>
           /\ GotFrom(t, m) # <<>>
           /\ \E n \in 1..Len(posts[t]) :
                /\ origin[t][n] = unique_posts[t][m]
                /\ posts[t][n] = GotFrom(t, m)[1]

\* C10, as the specification words it: a fault in any one sub-extractor is
\* caught, the other sub-extractors still run and the candidate, which has
\* content or media to show, continues to a record.
FaultContinuesToRecord ==
    (/\ ppc = "done"
     /\ outcome # "excluded"
     /\ caught # {}
     /\ (Of.content # <<>> \/ Of.media_urls # <<>>))
      => ran = Extractors /\ outcome = "record"

\* C10, as the code has it: a fault is caught inside its sub-extractor, which
\* returns its default (the media list: what was collected before the
\* fault); a candidate without an identifier, faulted or not, ends after
\* extract_post_id without a record; with an identifier all six
\* sub-extractors run whatever faults, and there is a record exactly when
\* content or media is not empty.
FaultIsolation ==
    /\ \A e \in cand.raises : e \in ran => e \in caught
    /\ "id" \in caught => draft.post_id = None
    /\ "content" \in caught => draft.content = <<>>
    /\ ("media" \in caught /\ "media" \in cand.raises) => draft.media_urls = <<>>
    /\ "media" \in caught =>
         \A k \in 1..Len(draft.media_urls) :
           \E j \in 1..Len(Of.collected) : Of.collected[j] = draft.media_urls[k]
    /\ "timestamp" \in caught => draft.posted_at = NoTime
    /\ "engagement" \in caught =>
         draft.engagement = [likes |-> 0, comments |-> 0, shares |-> 0]
    /\ "url" \in caught => draft.post_url = <<>>
    /\ (ppc = "done" /\ outcome # "excluded") =>
         IF draft.post_id # None /\ draft.post_id # <<>>
         THEN /\ ran = Extractors
              /\ outcome = "record"
                   <=> (draft.content # <<>> \/ draft.media_urls # <<>>)
         ELSE ran = {"id"} /\ outcome = "none"

\* A candidate on which extract_content faulted has become a record with
\* empty content, after the sub-extractors that follow have run.
RecordAfterContentFault ==
    /\ ppc = "done"
    /\ "content" \in caught
    /\ ran = Extractors
    /\ outcome = "record"
    /\ draft.content = <<>>
    /\ draft.media_urls # <<>>

(***************************************************************************)
(* Unparseable markup                                                      *)
(***************************************************************************)

\* C11: a call whose markup parse_html cannot parse aborts: find_posts never
\* returns for it, it holds no record while it runs, and crawl_page returns
\* the empty list through its except clause.
AbortOnInputError ==
    /\ \A k \in 1..Len(returned) : returned[k].html_content # Unparseable
    /\ \A k \in 1..Len(crawled) :
         crawled[k].html_content = Unparseable
           => crawled[k].raised /\ crawled[k].posts = <<>>
    /\ \A t \in Threads :
         (pc[t] # "idle" /\ args[t].html_content = Unparseable)
           => pc[t] \in {"parse_html", "raised"} /\ posts[t] = <<>>

\* A call on unparseable markup has ended after a call that returned records
\* and left its tree in self.soup.
AbortedAfterRecords ==
    /\ Len(crawled) >= 2
    /\ crawled[1].posts # <<>>
    /\ crawled[2].html_content = Unparseable
    /\ crawled[2].raised

(***************************************************************************)
(* The strategies of extract_post_id                                       *)
(***************************************************************************)

\* The story_fbid identifier of every link.
StoryIds(hrefs) == [k \in 1..Len(hrefs) |-> StoryLinkId(hrefs[k])]

\* The /seg/ID identifier of every link.
SegIds(hrefs, seg) ==
    [k \in 1..Len(hrefs) |->
       IF Contains(hrefs[k], seg) THEN PathId(hrefs[k], seg) ELSE None]

\* The identifier one strategy after the other gives over all the links:
\* story_fbid, /permalink/, /posts/, /videos/; otherwise without one.
ByStrategy(hrefs, otherwise) ==
    FirstNotNone(StoryIds(hrefs),
      FirstNotNone(SegIds(hrefs, PermalinkSeg),
        FirstNotNone(SegIds(hrefs, PostsSeg),
          FirstNotNone(SegIds(hrefs, VideosSeg), otherwise))))

\* The identifier the attributes of the element give, in the order data-ft,
\* aria-label, id; otherwise without one.
ByAttribute(tree, i, otherwise) ==
    OrElse(DataFtId(Get(tree, i, "data-ft")),
      OrElse(AriaLabelId(Get(tree, i, "aria-label")),
        OrElse(ElementId(Get(tree, i, "id")), otherwise)))

\* C12: the identifier extract_post_id returns without a fault is chosen by
\* strategy over all the links of the candidate: the first story_fbid
\* parameter of any link, without one the first /permalink/ identifier,
\* then /posts/, then /videos/; without a link identifier the data-ft key,
\* then the aria-label number, then the element id, then the generated
\* identifier.
StrategyPriority ==
    ("id" \in ran /\ "id" \notin caught) =>
      draft.post_id =
        ByStrategy(Hrefs(Tree(cand), 1),
                   ByAttribute(Tree(cand), 1, FallbackId(Tree(cand), 1)))

(***************************************************************************)
(* The generated identifier                                                *)
(***************************************************************************)

\* The identifier is one that extract_post_id generated.
IsGenerated(post_id) ==
    post_id # None /\ post_id # <<>> /\ post_id[1] = "generated_"

\* The candidate agrees with the extracted values in the first
\* IdContentChars characters of its content and in its timestamp.
SameIdInput(c, content, posted_at) ==
    /\ Take(Extracted[c].content, IdContentChars) = Take(content, IdContentChars)
    /\ Extracted[c].posted_at = posted_at

\* C13: the generated identifier is a function of the first IdContentChars
\* characters of the recovered content and of the timestamp: when
\* extract_post_id has just generated the identifier of the candidate, every
\* candidate with a generated identifier, the same such characters and the
\* same (or also no) timestamp has the same identifier.
FallbackStable ==
    (ppc = "content" /\ IsGenerated(draft.post_id)) =>
      \A c \in Candidates :
        IsGenerated(Extracted[c].post_id) =>
          (SameIdInput(c, Of.content, Of.posted_at)
             => Extracted[c].post_id = draft.post_id)

\* The identifier of a candidate with more than IdContentChars characters
\* of content and no timestamp has been generated, and another candidate,
\* whose content differs and whose timestamp does not parse, has the same
\* identifier.
SameIdOtherContent ==
    /\ ppc = "content"
    /\ IsGenerated(draft.post_id)
    /\ Len(Of.content) > IdContentChars
    /\ cand.time = 1
    /\ \E c \in Candidates :
         /\ c.time # 1
         /\ Extracted[c].content # Of.content
         /\ Extracted[c].post_id = draft.post_id

(***************************************************************************)
(* The engagement counters                                                 *)
(***************************************************************************)

\* The names of the three counters, each with the words it is scanned for.
CounterWordsOf ==
    [likes |-> LikeWords, comments |-> CommentWords, shares |-> ShareWords]

\* The counter is 0 unless the text has a match for it with at least one
\* digit in its number.
ZeroUnlessParsed(counter, m) ==
    (m = None \/ \A k \in 1..Len(m) : m[k] \notin Digit) => counter = 0

\* C14: what extract_engagement returned maps exactly likes, comments and
\* shares to integers that are not negative; all three are 0 when the
\* extractor faulted, and a counter is 0 when the text of the candidate has
\* no match for it or a match whose number does not parse.
EngagementShape ==
    "engagement" \in ran =>
      /\ DOMAIN draft.engagement = DOMAIN CounterWordsOf
      /\ \A name \in DOMAIN CounterWordsOf :
           /\ draft.engagement[name] \in Nat
           /\ "engagement" \in caught => draft.engagement[name] = 0
           /\ ZeroUnlessParsed(draft.engagement[name],
                NumberBefore(GetText(Tree(cand), 1), CounterWordsOf[name]))

\* extract_engagement faulted on a candidate whose text holds the three
\* counters, and the candidate has become a record with three zeros.
ZerosAfterEngagementFault ==
    /\ ppc = "done"
    /\ outcome = "record"
    /\ "engagement" \in caught
    /\ Counters(GetText(Tree(cand), 1)).likes > 0
    /\ draft.engagement = [likes |-> 0, comments |-> 0, shares |-> 0]

\* C15: extract_engagement, when it does not fault, sets every counter to
\* the number written before its keyword, thousands separators removed: the
\* text "1,234 likes 56 comments 3 shares" gives 1234, 56 and 3, and in a
\* text whose like counter has no digit and that has no comment counter the
\* share counter is still parsed.
EngagementParsed ==
    ("engagement" \in ran /\ "engagement" \notin caught) =>
      /\ GetText(Tree(cand), 1) = CountersText =>
           draft.engagement = [likes |-> 1234, comments |-> 56, shares |-> 3]
      /\ GetText(Tree(cand), 1) = NoLikesText =>
           draft.engagement = [likes |-> 0, comments |-> 0, shares |-> 7]

\* extract_engagement has scanned a text whose like counter does not parse
\* and has set the share counter that follows it.
SharesAfterBadLikes ==
    /\ "engagement" \in ran
    /\ "engagement" \notin caught
    /\ GetText(Tree(cand), 1) = NoLikesText
    /\ NumberBefore(NoLikesText, LikeWords) = <<",">>
    /\ draft.engagement.shares = 7

(***************************************************************************)
(* The post URL                                                            *)
(***************************************************************************)

\* The link target holds a comment identifier parameter.
HasCommentId(href) ==
    Contains(href, CommentIdEq) \/ Contains(href, ReplyCommentIdEq)

\* The link target matches a post path or the story parameter.
IsPostLink(href) ==
    \E pat \in {PermalinkSeg, PostsSeg, StoryFbidEq, VideosSeg} :
      Contains(href, pat)

\* The link targets without a comment identifier, in document order.
NoCommentLinks(hrefs) == SelectSeq(hrefs, LAMBDA h : ~HasCommentId(h))

\* The part of a URL before its first "?".
BaseOf(url) == SplitFirst(url, "?")

\* The parameters of the query of a URL, none without a "?".
ParamsOf(url) ==
    IF Len(BaseOf(url)) >= Len(url) THEN <<>>
    ELSE Split(SubSeq(url, Len(BaseOf(url)) + 2, Len(url)), "&")

\* The parameter has one of the allow-listed keys.
IsKept(param) == \E k \in KeepParams : StartsWith(param, k)

\* C16: the URL extract_post_url returns without a fault is the one it
\* returns for the links without a comment identifier alone, so no link with
\* comment_id= or reply_comment_id= gives the URL and the links after it are
\* still scanned; when every link of the candidate has a comment identifier
\* the URL is empty.
CommentLinksSkipped ==
    ("url" \in ran /\ "url" \notin caught) =>
      /\ draft.post_url =
           FirstNotNone(LinkUrls(NoCommentLinks(Hrefs(Tree(cand), 1))), <<>>)
      /\ NoCommentLinks(Hrefs(Tree(cand), 1)) = <<>> => draft.post_url = <<>>

\* extract_post_url has skipped a first link with a comment identifier and
\* returned the URL of the post link after it.
UrlAfterCommentLink ==
    /\ "url" \in ran
    /\ Len(cand.links) = 2
    /\ HasCommentId(HrefPool[cand.links[1]])
    /\ IsPostLink(HrefPool[cand.links[1]])
    /\ draft.post_url = FullUrl(HrefPool[cand.links[2]])

\* C17: the URL extract_post_url returns is empty or starts with http; its
\* query parameters all have allow-listed keys; and without a fault it is
\* made from the first link that is a post link without a comment
\* identifier: the absolute form of that link up to its query, followed by
\* the allow-listed parameters of the link in their order; it is empty
\* without such a link.
UrlNormalised ==
    "url" \in ran =>
      /\ draft.post_url = <<>> \/ StartsWith(draft.post_url, Http)
      /\ \A k \in 1..Len(ParamsOf(draft.post_url)) :
           IsKept(ParamsOf(draft.post_url)[k])
      /\ "url" \notin caught =>
           LET qualifying ==
                 SelectSeq(NoCommentLinks(Hrefs(Tree(cand), 1)), IsPostLink)
           IN  IF qualifying = <<>> THEN draft.post_url = <<>>
               ELSE /\ BaseOf(draft.post_url) = BaseOf(FullUrl(qualifying[1]))
                    /\ ParamsOf(draft.post_url)
                         = SelectSeq(ParamsOf(qualifying[1]), IsKept)

\* extract_post_url has returned the URL of a link with two allow-listed
\* parameters around a dropped one.
UrlWithDroppedParam ==
    /\ "url" \in ran
    /\ Len(ParamsOf(draft.post_url)) = 2
    /\ \E k \in 1..Len(cand.links) :
         /\ Len(ParamsOf(HrefPool[cand.links[k]])) = 3
         /\ ~IsKept(ParamsOf(HrefPool[cand.links[k]])[2])
         /\ BaseOf(draft.post_url) = BaseOf(FullUrl(HrefPool[cand.links[k]]))

(***************************************************************************)
(* The declared dimensions of an image                                     *)
(***************************************************************************)

\* The images of a tree.
ImageNodes(tree) == {j \in 1..Len(tree) : tree[j].tag = "img"}

\* The declared width or the declared height of the image is a number
\* below MinDimension.
DeclaredTiny(tree, j) ==
    \/ Declared(Get(tree, j, "width")) = "tiny"
    \/ Declared(Get(tree, j, "height")) = "tiny"

\* The URL is among the URLs.
Among(url, urls) == \E k \in 1..Len(urls) : urls[k] = url

\* C18: when extract_media_urls has run without a fault, the src of an image
\* whose declared width or height is a number below MinDimension, and that
\* no other image carries, is not among the media URLs, whatever the other
\* dimension declares; and the src of an image that declares no such number
\* and passes the other filters is among them.
TinyRejected ==
    ("media" \in ran /\ "media" \notin caught) =>
      \A j \in ImageNodes(Tree(cand)) :
        /\ (/\ DeclaredTiny(Tree(cand), j)
            /\ \A m \in ImageNodes(Tree(cand)) \ {j} :
                 Get(Tree(cand), m, "src") # Get(Tree(cand), j, "src"))
             => ~Among(Get(Tree(cand), j, "src"), draft.media_urls)
        /\ (/\ ~DeclaredTiny(Tree(cand), j)
            /\ ~\E p \in JunkPatterns : Contains(Get(Tree(cand), j, "src"), p)
            /\ ~InSection(Tree(cand), j))
             => Among(Get(Tree(cand), j, "src"), draft.media_urls)

(***************************************************************************)
(* Database.save_post, called by crawl tasks that run in parallel          *)
(***************************************************************************)

\* The most save_post calls the tasks make together.
MaxSaves == 3

\* The identifiers and the contents of the posts the tasks save.
PostIds == {<<"1">>, <<"2">>}

Contents == {<<"a">>, <<"b">>}

\* The post_data a crawl hands to save_post: the crawl that read the content
\* c read the other fields of the post as they were then.
CrawledPost(p, c) ==
    [post_id |-> p, page_name |-> <<"page">> \o c, content |-> c,
     media_urls |-> <<<<"img">> \o c>>, posted_at |-> <<"at">> \o c,
     engagement |-> <<"likes">> \o c, post_url |-> <<"/posts/">> \o p \o c]

\* The rows of fb_posts with the post_id.
RowsOf(post_id) == {k \in 1..Len(fb_posts) : fb_posts[k].post_id = post_id}

\* save_post returns (success, is_new) and the task goes on.
Saved(w, success, is_new) ==
    /\ saved' = Append(saved, [post_id |-> saving[w].post_id,
                               success |-> success, is_new |-> is_new])
    /\ dbpc' = [dbpc EXCEPT ![w] = "idle"]
    /\ saving' = [saving EXCEPT ![w] = NoPost]

\* success, is_new = self.db.save_post(post)
SavePost(w) ==
    /\ dbpc[w] = "idle"
    /\ nsaves < MaxSaves
    /\ nsaves' = nsaves + 1
    /\ \E p \in PostIds, c \in Contents :
         saving' = [saving EXCEPT ![w] = CrawledPost(p, c)]
    /\ dbpc' = [dbpc EXCEPT ![w] = "post_exists"]
    /\ UNCHANGED <<fb_posts, post_id_unique, saved>>
    /\ UNCHANGED <<findVars, postVars, cliVars, runVars, pageVars>>

\* if self.post_exists(post_id): the SELECT sees the rows committed so far.
PostExists(w) ==
    /\ dbpc[w] = "post_exists"
    /\ dbpc' = [dbpc EXCEPT ![w] = IF RowsOf(saving[w].post_id) # {}
                                    THEN "update_post" ELSE "insert_post"]
    /\ UNCHANGED <<fb_posts, post_id_unique, saving, saved, nsaves>>
    /\ UNCHANGED <<findVars, postVars, cliVars, runVars, pageVars>>

\* The row of an INSERT of post_data: updated_at is not among its columns.
InsertedRow(post_data) ==
    [post_id |-> post_data.post_id, page_name |-> post_data.page_name,
     content |-> post_data.content, media_urls |-> post_data.media_urls,
     posted_at |-> post_data.posted_at, engagement |-> post_data.engagement,
     post_url |-> post_data.post_url, updated_at |-> 0]

\* The row after the UPDATE of update_post, at the time now.
UpdatedRow(row, post_data, now) ==
    [row EXCEPT !.content = post_data.content,
                !.media_urls = post_data.media_urls,
                !.engagement = post_data.engagement,
                !.updated_at = now]

\* An UPDATE that writes every column of the post.
UpdatePostWhole(w) ==
    /\ dbpc[w] = "update_post"
    /\ fb_posts' = [k \in 1..Len(fb_posts) |->
                      IF fb_posts[k].post_id = saving[w].post_id
                      THEN [InsertedRow(saving[w]) EXCEPT !.updated_at = nsaves]
                      ELSE fb_posts[k]]
    /\ Saved(w, TRUE, FALSE)
    /\ UNCHANGED <<post_id_unique, nsaves>>
    /\ UNCHANGED <<findVars, postVars, cliVars, runVars, pageVars>>

\* self.update_post(post_id, post_data); return (True, False).  The time of
\* the UPDATE is the number of save_post calls made so far.
UpdatePost(w) ==
    /\ dbpc[w] = "update_post"
    /\ fb_posts' = [k \in 1..Len(fb_posts) |->
                      IF fb_posts[k].post_id = saving[w].post_id
                      THEN UpdatedRow(fb_posts[k], saving[w], nsaves)
                      ELSE fb_posts[k]]
    /\ Saved(w, TRUE, FALSE)
    /\ UNCHANGED <<post_id_unique, nsaves>>
    /\ UNCHANGED <<findVars, postVars, cliVars, runVars, pageVars>>

\* self.insert_post(post_data); return (True, True).  On a table with a
\* unique key the INSERT of a post_id that has a row raises, and the except
\* clause returns (False, False).
InsertPost(w) ==
    /\ dbpc[w] = "insert_post"
    /\ IF post_id_unique /\ RowsOf(saving[w].post_id) # {}
       THEN /\ fb_posts' = fb_posts
            /\ Saved(w, FALSE, FALSE)
       ELSE /\ fb_posts' = Append(fb_posts, InsertedRow(saving[w]))
            /\ Saved(w, TRUE, TRUE)
    /\ UNCHANGED <<post_id_unique, nsaves>>
    /\ UNCHANGED <<findVars, postVars, cliVars, runVars, pageVars>>

\* The table is empty, with or without a unique key on post_id.
InitDb ==
    /\ InitFind /\ InitPost /\ InitMain /\ InitRest
    /\ InitSave
    /\ post_id_unique \in BOOLEAN

NextDb ==
    \E w \in Tasks :
      \/ SavePost(w)
      \/ PostExists(w)
      \/ UpdatePost(w)
      \/ InsertPost(w)

\* The save_post calls of the parallel tasks, interleaved at their queries.
SpecDb == InitDb /\ [][NextDb]_vars

\* C19: save_post is an upsert keyed by post_id: once a call with a post_id
\* has returned, the table holds exactly one row with it, exactly one of
\* the calls that returned with it reported (True, True), and every other
\* one reported (True, False).
UpsertByPostId ==
    \A p \in PostIds :
      LET done == {k \in 1..Len(saved) : saved[k].post_id = p}
      IN  done # {} =>
            /\ Cardinality(RowsOf(p)) = 1
            /\ Cardinality({k \in done : saved[k].is_new}) = 1
            /\ \A k \in done : saved[k].success

\* C29: a step of save_post removes no row of fb_posts and leaves post_id,
\* page_name, posted_at and post_url of every row as they were written by
\* its insert; the update of a post_id that exists writes content,
\* media_urls, engagement and updated_at of its rows from the new record,
\* whatever page_name, posted_at and post_url that record carries.
UpdateFrame ==
    [][/\ Len(fb_posts') >= Len(fb_posts)
       /\ \A k \in 1..Len(fb_posts) :
            /\ fb_posts'[k].post_id = fb_posts[k].post_id
            /\ fb_posts'[k].page_name = fb_posts[k].page_name
            /\ fb_posts'[k].posted_at = fb_posts[k].posted_at
            /\ fb_posts'[k].post_url = fb_posts[k].post_url
            /\ \A w \in Tasks :
                 (dbpc[w] = "update_post" /\ dbpc'[w] = "idle"
                    /\ fb_posts[k].post_id = saving[w].post_id)
                 => /\ fb_posts'[k].content = saving[w].content
                    /\ fb_posts'[k].media_urls = saving[w].media_urls
                    /\ fb_posts'[k].engagement = saving[w].engagement
                    /\ fb_posts'[k].updated_at = nsaves]_vars

\* A row was updated from a record whose page_name, posted_at and post_url
\* are not the ones the row was inserted with.
UpdatedFromOtherRecord ==
    \E k \in 1..Len(fb_posts) :
      /\ fb_posts[k].updated_at # 0
      /\ fb_posts[k].content = <<"b">>
      /\ fb_posts[k].media_urls = CrawledPost(fb_posts[k].post_id, <<"b">>).media_urls
      /\ fb_posts[k].page_name = CrawledPost(fb_posts[k].post_id, <<"a">>).page_name
      /\ fb_posts[k].posted_at = CrawledPost(fb_posts[k].post_id, <<"a">>).posted_at
      /\ fb_posts[k].post_url = CrawledPost(fb_posts[k].post_id, <<"a">>).post_url

(***************************************************************************)
(* main: the page argument                                                 *)
(***************************************************************************)

\* The most characters of a page argument after its scheme.
MaxNameLen == 4

\* The characters the page arguments are written with.
NameChars == {"h", "t", "p", "/"}

HttpScheme == <<"h", "t", "t", "p", ":", "/", "/">>

HttpsScheme == <<"h", "t", "t", "p", "s", ":", "/", "/">>

\* The values of --page: a page name or path, alone or behind a scheme.
PageArgs ==
    {scheme \o rest :
       scheme \in {<<>>, HttpScheme, HttpsScheme},
       rest \in UNION {[1..n -> NameChars] : n \in 1..MaxNameLen}}

\* The values of --name: not given, or given.
NameArgs == {None, <<"n">>}

\* s.split("/")[-1] or s.split("/")[-2]
LastSegment(parts) ==
    IF parts[Len(parts)] # <<>> THEN parts[Len(parts)]
    ELSE parts[Len(parts) - 1]

\* args = parser.parse_args()
ParseArgs ==
    /\ cpc = "parse_args"
    /\ \E page \in PageArgs, name \in NameArgs :
         argv' = [page |-> page, name |-> name]
    /\ cpc' = "convert"
    /\ UNCHANGED <<page_url, log_name>>
    /\ UNCHANGED <<findVars, postVars, dbVars, runVars, pageVars>>

\* page_url = args.page, made a URL of the site when it does not start with
\* "http".
ConvertPage ==
    /\ cpc = "convert"
    /\ page_url' = IF ~StartsWith(argv.page, Http)
                   THEN FacebookHost \o <<"/">> \o argv.page
                   ELSE argv.page
    /\ cpc' = "run"
    /\ UNCHANGED <<argv, log_name>>
    /\ UNCHANGED <<findVars, postVars, dbVars, runVars, pageVars>>

\* crawler.run(page_url=page_url, page_name=args.name, ...): without a name
\* the crawl is logged under the last segment of the URL.
Run ==
    /\ cpc = "run"
    /\ log_name' = IF ~Truthy(argv.name)
                   THEN LastSegment(Split(page_url, "/"))
                   ELSE argv.name
    /\ cpc' = "done"
    /\ UNCHANGED <<argv, page_url>>
    /\ UNCHANGED <<findVars, postVars, dbVars, runVars, pageVars>>

InitCli ==
    /\ InitFind /\ InitPost /\ InitRest
    /\ InitSave /\ post_id_unique = FALSE
    /\ InitMain

NextCli ==
    \/ ParseArgs
    \/ ConvertPage
    \/ Run

\* main, for every page argument.
SpecCli == InitCli /\ [][NextCli]_vars

\* The argument is a full URL: it starts with http:// or https://.
IsFullUrl(page) == StartsWith(page, HttpScheme) \/ StartsWith(page, HttpsScheme)

\* C20: the crawl URL main passes to the crawler is the page argument
\* itself when that is a full http or https URL, and
\* https://www.facebook.com/ followed by the argument for every other
\* argument, a bare page name.
PageUrlConversion ==
    cpc \in {"run", "done"} =>
      page_url = IF IsFullUrl(argv.page) THEN argv.page
                 ELSE FacebookHost \o <<"/">> \o argv.page

(***************************************************************************)
(* Elements matched by more than one selector                              *)
(***************************************************************************)

\* C21: an element is counted once however many selectors match it: when a
\* call is about to return, no element is held twice by unique_posts, and
\* no two records of posts are taken from the same element.
CountedOnce ==
    \A t \in Threads :
      pc[t] = "return" =>
        /\ \A i, j \in 1..Len(unique_posts[t]) :
             i # j => unique_posts[t][i] # unique_posts[t][j]
        /\ \A i, j \in 1..Len(origin[t]) :
             i # j => origin[t][i] # origin[t][j]

(***************************************************************************)
(* Comments and replies                                                    *)
(***************************************************************************)

\* One of the class tokens of node j is comment or reply.
HasMarkerToken(tree, j) ==
    \E k \in 1..Len(ClassList(tree, j)) :
      ClassList(tree, j)[k]
        \in {<<"c", "o", "m", "m", "e", "n", "t">>, <<"r", "e", "p", "l", "y">>}

\* The element, or a pooled element above it, has a comment or reply token.
InsideMarked(t, e) ==
    \/ HasMarkerToken(Tree(e.doc), e.idx)
    \/ \E a \in PooledAbove(t, e) : HasMarkerToken(Tree(a.doc), a.idx)

\* C22: no record of a call is taken from an element with the class token
\* comment or reply, nor from a pooled element that lies inside a pooled
\* element with such a token: an element of the first kind reaches the loop
\* and is skipped, one of the second kind does not reach unique_posts.
NoCommentRecords ==
    \A t \in Threads :
      /\ \A m \in 1..Len(origin[t]) : ~InsideMarked(t, origin[t][m])
      /\ pc[t] \in {"loop", "return"} =>
           \A k \in 1..Len(all_potential_elements[t]) :
             (\E a \in PooledAbove(t, all_potential_elements[t][k]) :
                HasMarkerToken(Tree(a.doc), a.idx))
               => \A m \in 1..Len(unique_posts[t]) :
                    unique_posts[t][m] # all_potential_elements[t][k]

\* A call is about to return records although its pool held a comment
\* element, which reached unique_posts, and a post element inside it, which
\* did not.
CommentWithPostSkipped ==
    \E t \in Threads :
      /\ pc[t] = "return"
      /\ posts[t] # <<>>
      /\ \E k \in 1..Len(unique_posts[t]) :
           /\ HasMarkerToken(Tree(unique_posts[t][k].doc), unique_posts[t][k].idx)
           /\ \E j \in 1..Len(all_potential_elements[t]) :
                /\ unique_posts[t][k] \in PooledAbove(t, all_potential_elements[t][j])
                /\ \A m \in 1..Len(unique_posts[t]) :
                     unique_posts[t][m] # all_potential_elements[t][j]

(***************************************************************************)
(* The timestamp                                                           *)
(***************************************************************************)

\* The abbr and time nodes of a tree that carry data-utime or datetime.
TimeCarriers(tree) ==
    {j \in 1..Len(tree) :
       /\ tree[j].tag \in {"abbr", "time"}
       /\ \/ Truthy(Get(tree, j, "data-utime"))
          \/ Truthy(Get(tree, j, "datetime"))}

\* The value the epoch attribute writes, absent when it is no number.
EpochValue(utime) ==
    IF IntParse(utime).ok THEN <<[epoch |-> IntParse(utime).val]>> ELSE NoTime

\* The value the datetime attribute writes once its Z is normalised, absent
\* when it is not in ISO format.
IsoValue(iso) == IF IsIsoFormat(iso) THEN <<[iso |-> iso]>> ELSE NoTime

\* The value node j writes: its epoch when it has one, else its datetime.
TimeValue(tree, j) ==
    IF Truthy(Get(tree, j, "data-utime"))
    THEN EpochValue(Get(tree, j, "data-utime"))
    ELSE IsoValue(Replace(Get(tree, j, "datetime"), <<"Z">>,
                          <<"+", "0", "0", ":", "0", "0">>))

\* C23: what extract_timestamp returns, when the tree library does not
\* fault, is the value of the first abbr or time element in document order
\* that carries data-utime or datetime, its data-utime before its datetime;
\* it is absent without such an element and when the attribute of that
\* first element does not parse, whatever the elements after it carry.
TimestampFirstWins ==
    ("timestamp" \in ran /\ "timestamp" \notin cand.raises) =>
      draft.posted_at =
        IF TimeCarriers(Tree(cand)) = {} THEN NoTime
        ELSE TimeValue(Tree(cand), Min(TimeCarriers(Tree(cand))))

\* extract_timestamp has returned absent for a candidate whose first epoch
\* does not parse and whose second one does.
LaterTimeNotTried ==
    /\ "timestamp" \in caught
    /\ "timestamp" \notin cand.raises
    /\ draft.posted_at = NoTime
    /\ \E j \in TimeCarriers(Tree(cand)) :
         /\ j > Min(TimeCarriers(Tree(cand)))
         /\ TimeValue(Tree(cand), j) # NoTime

(***************************************************************************)
(* The four strategies of extract_content                                  *)
(***************************************************************************)

\* The text the legacy container gives, empty without one.
OldText(tree, old) ==
    IF old = 0 THEN <<>> ELSE GetTextStrip(tree, old, <<" ">>)

\* C24: what extract_content returns, when the tree library does not fault,
\* is the text of the first of its four strategies that gives a text: the
\* message-preview container with its fragments joined by single spaces,
\* the fragments with a body class, the legacy container, the global
\* fallback; it is empty only when none of the four gives a text.
ContentChain ==
    ("content" \in ran /\ "content" \notin cand.raises) =>
      draft.content =
        IfText(MessageText(Tree(cand), MessageContainer(Tree(cand), 1)),
          IfText(Join(PotentialTextParts(Tree(cand), 1), <<" ">>),
            IfText(OldText(Tree(cand), OldContent(Tree(cand), 1)),
                   JoinedText(AllText(Tree(cand), 1)))))

(***************************************************************************)
(* FacebookCrawler.run.  The browser, the network and the database are     *)
(* outside the program: a call into one of them returns or raises.         *)
(***************************************************************************)

\* The most posts crawl_page returns.
MaxPosts == 2

\* What crawl_page can return: the lists of posts, named by their post_id.
CrawledLists == UNION {[1..n -> PostIds] : n \in 0..MaxPosts}

\* What save_post can return: (success, is_new).
SaveResults == {<<TRUE, TRUE>>, <<TRUE, FALSE>>, <<FALSE, FALSE>>}

\* The row create_crawl_log inserts, with the statuses written to it since.
RunningLog ==
    [status |-> "running", posts_found |-> 0, posts_new |-> 0,
     posts_updated |-> 0, error_message |-> None, written |-> <<>>]

\* The row after the UPDATE of update_crawl_log.
UpdatedLog(row, status, counts, error_message) ==
    [status |-> status, posts_found |-> counts.posts_found,
     posts_new |-> counts.posts_new, posts_updated |-> counts.posts_updated,
     error_message |-> error_message, written |-> Append(row.written, status)]

\* A step inside the try block raises: control goes to the except clause.
Raise(step) ==
    /\ exc' = <<step>>
    /\ raised_at' = raised_at \cup {step}
    /\ rpc' = "except"

\* run(page_url, page_name, scrolls, save_to_db, use_cookies)
RunCall ==
    /\ rpc = "idle"
    /\ save_to_db' \in BOOLEAN
    /\ results' = NoResults
    /\ log_id' = 0
    /\ rpc' = "start_browser"
    /\ UNCHANGED <<browser, connection, crawl_logs, found, stats, outcomes,
                   exc, raised_at, swallowed>>
    /\ UNCHANGED <<findVars, postVars, dbVars, cliVars, pageVars>>

\* self.start_browser(): the launch sets self.browser, and the launch or
\* the calls after it can raise.
StartBrowser ==
    /\ rpc = "start_browser"
    /\ \/ /\ browser' = "open"
          /\ rpc' = "goto"
          /\ UNCHANGED <<exc, raised_at>>
       \/ /\ browser' \in {"none", "open"}
          /\ Raise("start_browser")
    /\ UNCHANGED <<save_to_db, connection, log_id, crawl_logs, results, found,
                   stats, outcomes, swallowed>>
    /\ UNCHANGED <<findVars, postVars, dbVars, cliVars, pageVars>>

\* load_cookies, self.page.goto('https://www.facebook.com') and login.
Goto ==
    /\ rpc = "goto"
    /\ \/ /\ rpc' = IF save_to_db THEN "connect" ELSE "crawl_page"
          /\ UNCHANGED <<exc, raised_at>>
       \/ Raise("goto")
    /\ UNCHANGED <<save_to_db, browser, connection, log_id, crawl_logs,
                   results, found, stats, outcomes, swallowed>>
    /\ UNCHANGED <<findVars, postVars, dbVars, cliVars, pageVars>>

\* self.db.connect(): it returns False, and leaves no connection, when the
\* server cannot be reached.
Connect ==
    /\ rpc = "connect"
    /\ connection' \in {"open", "none"}
    /\ rpc' = "create_crawl_log"
    /\ UNCHANGED <<save_to_db, browser, log_id, crawl_logs, results, found,
                   stats, outcomes, exc, raised_at, swallowed>>
    /\ UNCHANGED <<findVars, postVars, dbVars, cliVars, pageVars>>

\* log_id = self.db.create_crawl_log(page_name): without a connection
\* execute_query raises, with one the INSERT can.
CreateCrawlLog ==
    /\ rpc = "create_crawl_log"
    /\ \/ /\ connection = "open"
          /\ crawl_logs' = Append(crawl_logs, RunningLog)
          /\ log_id' = Len(crawl_logs) + 1
          /\ rpc' = "crawl_page"
          /\ UNCHANGED <<exc, raised_at>>
       \/ /\ Raise("create_crawl_log")
          /\ UNCHANGED <<crawl_logs, log_id>>
    /\ UNCHANGED <<save_to_db, browser, connection, results, found, stats,
                   outcomes, swallowed>>
    /\ UNCHANGED <<findVars, postVars, dbVars, cliVars, pageVars>>

\* run goes on with the posts crawl_page returned.
Crawled(ps) ==
    /\ found' = ps
    /\ results' = [results EXCEPT !.posts_found = Len(ps)]
    /\ rpc' = IF save_to_db /\ ps # <<>> THEN "save_posts_to_db" ELSE "success"

\* A crawl_page without its except clause: the failure goes on to run.
CrawlPageUncaught ==
    /\ rpc = "crawl_page"
    /\ \/ /\ \E ps \in CrawledLists : Crawled(ps)
          /\ UNCHANGED <<raised_at, exc>>
       \/ /\ Raise("crawl_page")
          /\ UNCHANGED <<found, results>>
    /\ UNCHANGED <<save_to_db, browser, connection, log_id, crawl_logs, stats,
                   outcomes, swallowed>>
    /\ UNCHANGED <<findVars, postVars, dbVars, cliVars, pageVars>>

\* posts = self.crawl_page(page_url, page_name, scrolls);
\* results['posts_found'] = len(posts).  When the navigation, the scrolling
\* or the parsing raises, the except clause of crawl_page returns [].
CrawlPage ==
    /\ rpc = "crawl_page"
    /\ \/ /\ \E ps \in CrawledLists : Crawled(ps)
          /\ UNCHANGED <<raised_at, swallowed>>
       \/ /\ Crawled(<<>>)
          /\ raised_at' = raised_at \cup {"crawl_page"}
          /\ swallowed' = TRUE
    /\ UNCHANGED <<save_to_db, browser, connection, log_id, crawl_logs, stats,
                   outcomes, exc>>
    /\ UNCHANGED <<findVars, postVars, dbVars, cliVars, pageVars>>

\* save_posts_to_db(posts): stats = {'new': 0, 'updated': 0, 'failed': 0},
\* and a connect when there is no connection.
SavePostsToDb ==
    /\ rpc = "save_posts_to_db"
    /\ stats' = NoStats
    /\ outcomes' = <<>>
    /\ connection' \in IF connection = "open" THEN {"open"} ELSE {"open", "none"}
    /\ rpc' = "save_post"
    /\ UNCHANGED <<save_to_db, browser, log_id, crawl_logs, results, found,
                   exc, raised_at, swallowed>>
    /\ UNCHANGED <<findVars, postVars, dbVars, cliVars, pageVars>>

\* stats after one save_post returned r.
Count(st, r) ==
    IF r[1]
    THEN IF r[2] THEN [st EXCEPT !.new = @ + 1]
                 ELSE [st EXCEPT !.updated = @ + 1]
    ELSE [st EXCEPT !.failed = @ + 1]

\* A loop that gives up at the first post that fails to save: the posts
\* left get no save_post call.
SaveOneUntilFailure ==
    /\ rpc = "save_post"
    /\ Len(outcomes) < Len(found)
    /\ \E r \in SaveResults :
         /\ outcomes' = IF r[1] THEN Append(outcomes, r)
                        ELSE outcomes \o [k \in 1..(Len(found) - Len(outcomes)) |-> <<>>]
         /\ stats' = IF r[1] THEN Count(stats, r) ELSE stats
    /\ UNCHANGED <<rpc, save_to_db, browser, connection, log_id, crawl_logs,
                   results, found, exc, raised_at, swallowed>>
    /\ UNCHANGED <<findVars, postVars, dbVars, cliVars, pageVars>>

\* for post in posts: success, is_new = self.db.save_post(post), counted.
SaveOne ==
    /\ rpc = "save_post"
    /\ Len(outcomes) < Len(found)
    /\ \E r \in SaveResults :
         /\ outcomes' = Append(outcomes, r)
         /\ stats' = Count(stats, r)
    /\ UNCHANGED <<rpc, save_to_db, browser, connection, log_id, crawl_logs,
                   results, found, exc, raised_at, swallowed>>
    /\ UNCHANGED <<findVars, postVars, dbVars, cliVars, pageVars>>

\* return stats; results['posts_new'] = stats['new'];
\* results['posts_updated'] = stats['updated']
SaveReturn ==
    /\ rpc = "save_post"
    /\ Len(outcomes) = Len(found)
    /\ results' = [results EXCEPT !.posts_new = stats.new,
                                  !.posts_updated = stats.updated]
    /\ rpc' = "success"
    /\ UNCHANGED <<save_to_db, browser, connection, log_id, crawl_logs, found,
                   stats, outcomes, exc, raised_at, swallowed>>
    /\ UNCHANGED <<findVars, postVars, dbVars, cliVars, pageVars>>

\* results['success'] = True
Success ==
    /\ rpc = "success"
    /\ results' = [results EXCEPT !.success = TRUE]
    /\ rpc' = IF save_to_db /\ log_id # 0 THEN "update_crawl_log" ELSE "finally"
    /\ UNCHANGED <<save_to_db, browser, connection, log_id, crawl_logs, found,
                   stats, outcomes, exc, raised_at, swallowed>>
    /\ UNCHANGED <<findVars, postVars, dbVars, cliVars, pageVars>>

\* self.db.update_crawl_log(log_id, 'completed', ...): the UPDATE commits
\* or raises.
UpdateCrawlLog ==
    /\ rpc = "update_crawl_log"
    /\ \/ /\ crawl_logs' = [crawl_logs EXCEPT ![log_id] =
                              UpdatedLog(@, "completed", results, None)]
          /\ rpc' = "finally"
          /\ UNCHANGED <<exc, raised_at>>
       \/ /\ Raise("update_crawl_log")
          /\ UNCHANGED crawl_logs
    /\ UNCHANGED <<save_to_db, browser, connection, log_id, results, found,
                   stats, outcomes, swallowed>>
    /\ UNCHANGED <<findVars, postVars, dbVars, cliVars, pageVars>>

\* An except clause that leaves the crawl log alone.
RunExceptWithoutLog ==
    /\ rpc = "except"
    /\ results' = [results EXCEPT !.error = exc]
    /\ exc' = None
    /\ rpc' = "finally"
    /\ UNCHANGED <<crawl_logs, raised_at>>
    /\ UNCHANGED <<save_to_db, browser, connection, log_id, found, stats,
                   outcomes, swallowed>>
    /\ UNCHANGED <<findVars, postVars, dbVars, cliVars, pageVars>>

\* except Exception as e: results['error'] = str(e), and the log is marked
\* 'failed' with a second UPDATE, which commits or raises out of the
\* except clause.
RunExcept ==
    /\ rpc = "except"
    /\ results' = [results EXCEPT !.error = exc]
    /\ IF save_to_db /\ log_id # 0
       THEN \/ /\ crawl_logs' = [crawl_logs EXCEPT ![log_id] =
                                   UpdatedLog(@, "failed", NoResults, exc)]
               /\ exc' = None
               /\ UNCHANGED raised_at
            \/ /\ exc' = <<"except">>
               /\ raised_at' = raised_at \cup {"except"}
               /\ UNCHANGED crawl_logs
       ELSE /\ exc' = None
            /\ UNCHANGED <<crawl_logs, raised_at>>
    /\ rpc' = "finally"
    /\ UNCHANGED <<save_to_db, browser, connection, log_id, found, stats,
                   outcomes, swallowed>>
    /\ UNCHANGED <<findVars, postVars, dbVars, cliVars, pageVars>>

\* finally: self.stop_browser(), which closes the browser there is; a close
\* that raises leaves the finally clause at once.
StopBrowser ==
    /\ rpc = "finally"
    /\ IF browser = "open"
       THEN \/ /\ browser' = "closed"
               /\ rpc' = "disconnect"
               /\ UNCHANGED <<exc, raised_at>>
            \/ /\ exc' = <<"stop_browser">>
               /\ raised_at' = raised_at \cup {"stop_browser"}
               /\ rpc' = "raised"
               /\ UNCHANGED browser
       ELSE /\ rpc' = "disconnect"
            /\ UNCHANGED <<browser, exc, raised_at>>
    /\ UNCHANGED <<save_to_db, connection, log_id, crawl_logs, results, found,
                   stats, outcomes, swallowed>>
    /\ UNCHANGED <<findVars, postVars, dbVars, cliVars, pageVars>>

\* if save_to_db: self.db.disconnect(); then return results, or the
\* exception that left the except clause goes on to the caller.
Disconnect ==
    /\ rpc = "disconnect"
    /\ connection' = IF save_to_db /\ connection = "open"
                     THEN "closed" ELSE connection
    /\ rpc' = IF exc = None THEN "returned" ELSE "raised"
    /\ UNCHANGED <<save_to_db, browser, log_id, crawl_logs, results, found,
                   stats, outcomes, exc, raised_at, swallowed>>
    /\ UNCHANGED <<findVars, postVars, dbVars, cliVars, pageVars>>

InitCrawl ==
    /\ InitFind /\ InitPost /\ InitMain
    /\ InitSave /\ post_id_unique = FALSE
    /\ InitRest

NextRun ==
    \/ RunCall
    \/ StartBrowser
    \/ Goto
    \/ Connect
    \/ CreateCrawlLog
    \/ CrawlPage
    \/ SavePostsToDb
    \/ SaveOne
    \/ SaveReturn
    \/ Success
    \/ UpdateCrawlLog
    \/ RunExcept
    \/ StopBrowser
    \/ Disconnect

\* One call of run, with every outcome of the calls it makes outside.
SpecRun == InitCrawl /\ [][NextRun]_vars

\* run has ended: it returned results or an exception left it.
RunEnded == rpc \in {"returned", "raised"}

\* C25: when run has ended, the browser it started is closed, the database
\* connection it opened is closed when save_to_db is set, and run returned
\* its results instead of raising.
CleanupOnEveryPath ==
    RunEnded =>
      /\ browser # "open"
      /\ save_to_db => connection # "open"
      /\ rpc = "returned"

\* The crawl log run created, and the UPDATE last tried on it did not fail.
LogUpdateWorked == log_id # 0 /\ "except" \notin raised_at

\* C26: when run has ended, the crawl log it created was, provided the
\* log update itself did not fail, written exactly once after 'running':
\* 'completed' with the counts of the results when the try block finished,
\* 'failed' with the text of the exception when a step raised after the log
\* was created; the row is not 'running' any more.
LogSettledOnce ==
    (RunEnded /\ LogUpdateWorked) =>
      /\ Len(crawl_logs[log_id].written) = 1
      /\ crawl_logs[log_id].status = crawl_logs[log_id].written[1]
      /\ IF raised_at \cap {"update_crawl_log"} = {}
         THEN /\ crawl_logs[log_id].status = "completed"
              /\ crawl_logs[log_id].posts_found = results.posts_found
              /\ crawl_logs[log_id].posts_new = results.posts_new
              /\ crawl_logs[log_id].posts_updated = results.posts_updated
              /\ crawl_logs[log_id].error_message = None
         ELSE /\ crawl_logs[log_id].status = "failed"
              /\ crawl_logs[log_id].error_message = <<"update_crawl_log">>
              /\ crawl_logs[log_id].error_message = results.error

\* run returned with its log marked 'failed', after a step raised once the
\* log was there.
LogMarkedFailed ==
    /\ rpc = "returned"
    /\ log_id # 0
    /\ crawl_logs[log_id].status = "failed"
    /\ crawl_logs[log_id].written = <<"failed">>

\* C27: when crawl_page caught a failure of its own and no other step of run
\* raised, run returns success True, posts_found 0 and error None, no
\* save_post was called, and the crawl log, when there is one, is
\* 'completed'.
CrawlFailureSwallowed ==
    (RunEnded /\ raised_at = {"crawl_page"}) =>
      /\ swallowed
      /\ rpc = "returned"
      /\ results = [NoResults EXCEPT !.success = TRUE]
      /\ found = <<>>
      /\ outcomes = <<>>
      /\ stats = NoStats
      /\ save_to_db => /\ log_id # 0
                       /\ crawl_logs[log_id].status = "completed"
                       /\ crawl_logs[log_id].posts_found = 0

\* run returned after crawl_page caught a failure, with the log completed.
EmptyCrawlCompleted ==
    /\ rpc = "returned"
    /\ swallowed
    /\ save_to_db
    /\ log_id # 0
    /\ crawl_logs[log_id].status = "completed"

\* The number of save_post calls that returned r.
Returned(r) == Cardinality({k \in 1..Len(outcomes) : outcomes[k] = r})

\* save_posts_to_db has returned to run.
SaveReturned ==
    /\ save_to_db
    /\ found # <<>>
    /\ rpc \notin {"save_posts_to_db", "save_post"}

\* C28: after save_posts_to_db returned, save_post was called once for each
\* post, whatever the calls before it returned, and new, updated and failed
\* count the calls that returned (True, True), (True, False) and
\* (False, False): together they are the number of posts.
EveryPostCounted ==
    SaveReturned =>
      /\ Len(outcomes) = Len(found)
      /\ \A k \in 1..Len(outcomes) : outcomes[k] \in SaveResults
      /\ stats.new = Returned(<<TRUE, TRUE>>)
      /\ stats.updated = Returned(<<TRUE, FALSE>>)
      /\ stats.failed = Returned(<<FALSE, FALSE>>)
      /\ stats.new + stats.updated + stats.failed = Len(found)

\* A post was saved after the save of the post before it had failed.
SavedAfterFailure ==
    /\ SaveReturned
    /\ \E k \in 1..(Len(outcomes) - 1) :
         /\ outcomes[k] = <<FALSE, FALSE>>
         /\ outcomes[k + 1][1]

(***************************************************************************)
(* manage_pages.py and crawl_all_active_pages_task                         *)
(***************************************************************************)

\* The most add_page and remove_page calls made.
MaxOps == 3

\* The URLs the pages are added with.
PageUrls == {<<"u">>, <<"v">>}

\* The rows the INSERT of add_page collides with.  The table definition is
\* not among the sources: page_name is taken to be the key that the
\* ON DUPLICATE KEY UPDATE clause of add_page is written for.
DuplicateKey(page_name) ==
    {k \in 1..Len(fb_pages) : fb_pages[k].page_name = page_name}

\* A management statement raises, and the script exits: no row changes.
PageError ==
    /\ mops' = mops + 1
    /\ UNCHANGED <<fb_pages, last_op>>

\* add_page(page_name, page_url): INSERT ... is_active TRUE
\* ON DUPLICATE KEY UPDATE page_url, crawl_frequency_minutes, is_active TRUE.
AddPage ==
    /\ mops < MaxOps
    /\ \/ \E n \in PageNames, u \in PageUrls :
            /\ fb_pages' =
                 IF DuplicateKey(n) = {}
                 THEN Append(fb_pages, [page_name |-> n, page_url |-> u,
                                        is_active |-> TRUE])
                 ELSE [k \in 1..Len(fb_pages) |->
                         IF k \in DuplicateKey(n)
                         THEN [fb_pages[k] EXCEPT !.page_url = u,
                                                  !.is_active = TRUE]
                         ELSE fb_pages[k]]
            /\ last_op' = [last_op EXCEPT ![n] = "add"]
            /\ mops' = mops + 1
       \/ PageError
    /\ UNCHANGED <<tpc, active_pages, dispatched>>
    /\ UNCHANGED <<findVars, postVars, dbVars, cliVars, runVars>>

\* remove_page(page_name): UPDATE fb_pages SET is_active = FALSE
\* WHERE page_name = %s.
RemovePage ==
    /\ mops < MaxOps
    /\ \/ \E n \in PageNames :
            /\ fb_pages' = [k \in 1..Len(fb_pages) |->
                              IF fb_pages[k].page_name = n
                              THEN [fb_pages[k] EXCEPT !.is_active = FALSE]
                              ELSE fb_pages[k]]
            /\ last_op' = [last_op EXCEPT ![n] = "remove"]
            /\ mops' = mops + 1
       \/ PageError
    /\ UNCHANGED <<tpc, active_pages, dispatched>>
    /\ UNCHANGED <<findVars, postVars, dbVars, cliVars, runVars>>

\* A query that returns every row of fb_pages.
GetAllPages(rows) == rows

\* get_active_pages: SELECT * FROM fb_pages WHERE is_active = TRUE
GetActivePages(rows) ==
    LET Active(row) == row.is_active IN SelectSeq(rows, Active)

\* The task ends in its except clause and returns the error.
TaskError ==
    /\ tpc' = "failed"
    /\ UNCHANGED <<active_pages, dispatched>>

\* db.connect(); active_pages = db.get_active_pages()
TaskQuery ==
    /\ tpc = "idle"
    /\ \/ /\ active_pages' = GetActivePages(fb_pages)
          /\ tpc' = "loop"
          /\ UNCHANGED dispatched
       \/ TaskError
    /\ UNCHANGED <<fb_pages, last_op, mops>>
    /\ UNCHANGED <<findVars, postVars, dbVars, cliVars, runVars>>

\* for page in active_pages:
\*     crawl_page_task.apply_async(args=[page_url, page_name], ...)
TaskDispatch ==
    /\ tpc = "loop"
    /\ Len(dispatched) < Len(active_pages)
    /\ \/ /\ dispatched' =
               Append(dispatched,
                      <<active_pages[Len(dispatched) + 1].page_url,
                        active_pages[Len(dispatched) + 1].page_name>>)
          /\ UNCHANGED <<tpc, active_pages>>
       \/ TaskError
    /\ UNCHANGED <<fb_pages, last_op, mops>>
    /\ UNCHANGED <<findVars, postVars, dbVars, cliVars, runVars>>

\* return results
TaskReturn ==
    /\ tpc = "loop"
    /\ Len(dispatched) = Len(active_pages)
    /\ tpc' = "returned"
    /\ UNCHANGED <<fb_pages, last_op, mops, active_pages, dispatched>>
    /\ UNCHANGED <<findVars, postVars, dbVars, cliVars, runVars>>

InitManage ==
    /\ InitFind /\ InitPost /\ InitMain
    /\ InitSave /\ post_id_unique = FALSE
    /\ InitRest

NextPages ==
    \/ AddPage
    \/ RemovePage
    \/ TaskQuery
    \/ TaskDispatch
    \/ TaskReturn

\* The management calls, made before and while the task runs.
SpecPages == InitManage /\ [][NextPages]_vars

\* The rows of fb_pages for the page that are active.
ActiveRows(n) == {k \in DuplicateKey(n) : fb_pages[k].is_active}

\* The crawl_page tasks sent for the page.
TasksFor(n) == {k \in 1..Len(dispatched) : dispatched[k][2] = n}

====
